---- MODULE Spec2Model ----
(***************************************************************************)
(* Model of generate_compliance_report (src/app.py, lines 168-550): the    *)
(* scorer that turns a list of per-clause assessment records into a        *)
(* compliance report.                                                      *)
(*                                                                         *)
(* Number representation.  Maturity levels are multiples of 0.25 in the    *)
(* code (an int level minus 0, 0.25 or 0.5); the model keeps them in       *)
(* quarter units (level 1.75 is 7).  Score totals, maxima and percentages  *)
(* are drawn from integers.  Quotients (the average level, the overall     *)
(* percentage, the combined score) are exact fractions <<num, den>>.       *)
(* Python's round(x, n) and format(x, ".1f") round the binary value held   *)
(* to the nearest multiple of 1/scale, a tie going to the even neighbour.  *)
(* Where the code holds the exact value (a multiple of 0.25) that is       *)
(* Round(x, scale).  Where the value is a float quotient or a product with *)
(* 0.6 and 0.4, an exact decimal tie is in general not the binary value    *)
(* held, which lies just above or just below it: the model then allows     *)
(* both neighbours (RoundQuotient, RoundFloat).                            *)
(***************************************************************************)
EXTENDS Integers, Sequences, FiniteSets, TLC

VARIABLES
    assessments,            \* the argument of generate_compliance_report
    pc,                     \* "start", "loop", "done" (returned), "raised" (exception left the function)
    total_weighted_score,   \* line 174
    total_max_score,        \* line 175
    total_level_score,      \* line 176, in quarter levels
    clause_count,           \* line 177
    critical_gaps,          \* line 178
    moderate_gaps,          \* line 179
    minor_gaps,             \* line 180
    assessed_clauses,       \* line 181
    current_level,          \* loop local, line 189-193 (of the record processed last)
    score_percentage,       \* loop local, line 202-214
    effective_level,        \* loop local, line 218-224, in quarter levels
    gap,                    \* loop local, line 235, in quarter levels
    report,                 \* the value returned: NoReport until return, PyNone, or the report
    calls,                  \* calls of generate_compliance_report begun on this list
    previous,               \* how the call before this one ended: its pc and its report
    float_results,          \* what float rounding gave for the values rounded so far
    files,                  \* the .json files of SAVE_FOLDER: name, mtime and content of each
    now,                    \* the second that datetime.now() is in
    requests,               \* requests answered so far
    response,               \* the last request and its answer: route, filename, status, body
    generation_runs,        \* runs of the section-by-section generation of /analyze so far
    threads                 \* the save_selections requests being handled concurrently

vars == <<assessments, pc, total_weighted_score, total_max_score, total_level_score,
          clause_count, critical_gaps, moderate_gaps, minor_gaps, assessed_clauses,
          current_level, score_percentage, effective_level, gap, report,
          calls, previous, float_results,
          files, now, requests, response, generation_runs, threads>>

\* The variables of the web server around generate_compliance_report
server_vars == <<files, now, requests, response, generation_runs, threads>>

\* No request was answered yet
NoResponse == [route |-> "none", document |-> <<>>, status |-> 0, body |-> <<>>]

\* generate_compliance_report is called on a list directly: no folder, no request
NoServer ==
    /\ files = {}
    /\ now = 0
    /\ requests = 0
    /\ response = NoResponse
    /\ generation_runs = 0
    /\ threads = <<>>

----------------------------------------------------------------------------
(* Bounds of the model *)

\* Records in a list of records with numeric fields and all four levels
MaxRecs == 3

\* Records in a list that ends in a record with missing, repeated or wrongly
\* typed fields
MaxOddRecs == 2

\* Calls of generate_compliance_report on one list, and the records of a
\* list that is scored more than once
MaxCalls == 2

MaxCallRecs == 2

\* Records with a critical, a moderate and a minor gap in a list made to
\* fill the gap lists beyond the 5 and 3 entries that the roadmap phases and
\* the priority matrix keep
MaxCritical == 6

MaxModerate == 6

MaxMinor == 6

----------------------------------------------------------------------------
(* Arithmetic helpers *)

Max(a, b) == IF a >= b THEN a ELSE b

Min(a, b) == IF a <= b THEN a ELSE b

\* floor(n / d) for d > 0 and any integer n
FloorDiv(n, d) == IF n >= 0 THEN n \div d ELSE -(((-n) + d - 1) \div d)

\* Python round(): the fraction num/den (den > 0) times scale, rounded to the
\* nearest integer, ties to even.  round(x, 1) is Round(x, 10) read in tenths.
Round(x, scale) ==
    LET n == x[1] * scale
        d == x[2]
        f == FloorDiv(n, d)
        r == n - f * d          \* 0 <= r < d
    IN  IF 2 * r < d THEN f
        ELSE IF 2 * r > d THEN f + 1
        ELSE IF f % 2 = 0 THEN f ELSE f + 1

Frac(n, d) == <<n, d>>

\* x * scale lies exactly halfway between two integers
IsTie(x, scale) == (2 * x[1] * scale) % (2 * x[2]) = x[2]

RECURSIVE OddPart(_)
OddPart(d) == IF d % 2 = 0 THEN OddPart(d \div 2) ELSE d

\* x is a multiple of a power of 1/2: a binary float of the sizes met here
\* holds it exactly
Dyadic(x) == x[1] % OddPart(x[2]) = 0

\* What round()/format() can give for a float quotient a / b of exactly held
\* a and b whose exact value is x: the division is correctly rounded, so a
\* dyadic x is held exactly; another x on a tie is held as a neighbour on
\* either side
RoundQuotient(x, scale) ==
    IF IsTie(x, scale) /\ ~Dyadic(x)
    THEN {FloorDiv(x[1] * scale, x[2]), FloorDiv(x[1] * scale, x[2]) + 1}
    ELSE {Round(x, scale)}

\* What round() can give for a float computed with the inexact constants 0.6
\* and 0.4 whose exact value is x: on a tie either neighbour
RoundFloat(x, scale) ==
    IF IsTie(x, scale)
    THEN {FloorDiv(x[1] * scale, x[2]), FloorDiv(x[1] * scale, x[2]) + 1}
    ELSE {Round(x, scale)}

\* Float arithmetic is a function of its operands: a value that was rounded
\* before rounds to what it rounded to then; a value met for the first time
\* to one of the results allowed.  memo holds [op, x, scale, r] for the
\* roundings made, op telling the quotient ("div") from the weighted sum
\* ("mix").
FloatResult(memo, op, x, scale, allowed) ==
    LET seen == {e \in memo : e.op = op /\ e.x = x /\ e.scale = scale}
    IN  IF seen # {} THEN {e.r : e \in seen} ELSE allowed

RECURSIVE GCD(_, _)
GCD(a, b) == IF b = 0 THEN a ELSE GCD(b, a % b)

\* The fraction x >= 0 in lowest terms
Reduced(x) ==
    LET g == GCD(x[1], x[2])
    IN  <<x[1] \div g, x[2] \div g>>

FracAdd(x, y) == Reduced(<<x[1] * y[2] + y[1] * x[2], x[2] * y[2]>>)

\* x * n / d for integers n, d > 0
FracScale(x, n, d) == Reduced(<<x[1] * n, x[2] * d>>)

----------------------------------------------------------------------------
(* JSON values of an assessment record.                                    *)
(* A scalar field is [k, v]: k = "num" (a JSON number v), "absent" (key    *)
(* missing), "null" (JSON null), "bad" (a value float()/the code cannot    *)
(* use: a non-numeric string), "numstr" (a string float() reads as the     *)
(* number v, such as "80").  selected_maturity_level also has k = "float"  *)
(* (v in tenths, e.g. 27 is 2.7), "bool" (v is 1 for true, 0 for false)    *)
(* and "nan".                                                              *)

Num(v) == [k |-> "num", v |-> v]

Absent == [k |-> "absent", v |-> 0]

Null == [k |-> "null", v |-> 0]

Bad == [k |-> "bad", v |-> 0]

NumStr(v) == [k |-> "numstr", v |-> v]

\* calculated_score: a dict of three scalar fields, a missing key, or a non-dict
ScoreDict(t, m, p) == [k |-> "dict", total |-> t, max |-> m, percentage |-> p]

Score(t, m, p) == ScoreDict(Num(t), Num(m), Num(p))

NoScore == [k |-> "absent", total |-> Absent, max |-> Absent, percentage |-> Absent]

NotDictScore == [k |-> "notdict", total |-> Absent, max |-> Absent, percentage |-> Absent]

\* practices of a maturity level: a list of practice entries, each a dict with
\* a text, a dict whose text is null, or not a dict at all
Practice(t) == [k |-> "dict", text |-> t]

NullTextPractice == [k |-> "nulltext", text |-> "<null>"]

NotDictPractice == [k |-> "notdict", text |-> ""]

PracticeList(items) == [k |-> "list", items |-> items]

NoPractices == [k |-> "absent", items |-> <<>>]

NullPractices == [k |-> "null", items |-> <<>>]

\* One entry of maturity_levels
Level(l, d, ps) == [k |-> "dict", level |-> l, description |-> d, practices |-> ps]

NotDictLevel == [k |-> "notdict", level |-> Absent, description |-> "", practices |-> NoPractices]

\* What the code holds in level_N_data when no entry matched (None)
NoLevelData == [k |-> "none", level |-> Absent, description |-> "", practices |-> NoPractices]

LevelList(items) == [k |-> "list", items |-> items]

NoLevels == [k |-> "absent", items |-> <<>>]

NullLevels == [k |-> "null", items |-> <<>>]

\* clause: a string, kept as its space-separated tokens ("7.3 Design" is
\* <<"7.3", "Design">>), or a missing key, null, or a non-string
Clause(tokens) == [k |-> "str", tokens |-> tokens]

NoClause == [k |-> "absent", tokens |-> <<>>]

NullClause == [k |-> "null", tokens |-> <<>>]

IntClause == [k |-> "int", tokens |-> <<>>]

\* An assessment record (a dict), or an element of the list that is no dict
Rec(c, sel, cs, mls) ==
    [k |-> "dict", clause |-> c, selected_maturity_level |-> sel,
     calculated_score |-> cs, maturity_levels |-> mls]

NotDictRec ==
    [k |-> "notdict", clause |-> NoClause, selected_maturity_level |-> Absent,
     calculated_score |-> NoScore, maturity_levels |-> NoLevels]

----------------------------------------------------------------------------
(* The loop body of generate_compliance_report, as pure operators of one   *)
(* record.                                                                 *)

\* line 195
target_level == 4

\* lines 184-186: clause.split(' ', 1)[1] if ' ' in clause else clause.
\* The name is the list of tokens after the first; with no space it is the
\* whole clause.
ClauseName(a) ==
    LET t == IF a.clause.k = "str" THEN a.clause.tokens ELSE <<>>
    IN  IF Len(t) >= 2 THEN Tail(t) ELSE t

\* line 186: clause.split(' ')[0] if ' ' in clause else clause
ClauseNum(a) ==
    LET t == IF a.clause.k = "str" THEN a.clause.tokens ELSE <<>>
    IN  IF Len(t) >= 1 THEN t[1] ELSE ""

\* int() of a float given in tenths: truncation toward zero
IntOfTenths(v) == IF v >= 0 THEN v \div 10 ELSE -((-v) \div 10)

\* CurrentLevel reading a numeric string as its number, int("3")
CurrentLevelReadingStrings(a) ==
    LET s == a.selected_maturity_level
    IN  IF s.k \in {"absent", "null"} THEN 1
        ELSE IF s.k \in {"num", "bool", "numstr"} THEN s.v
        ELSE IF s.k = "float" THEN IntOfTenths(s.v)
        ELSE 1

\* lines 189-193: the level the code scores the record at.  isinstance(x,
\* (int, float)) holds for a bool too, and int(True) is 1, int(False) is 0.
CurrentLevel(a) ==
    LET s == a.selected_maturity_level
    IN  IF s.k \in {"absent", "null"} THEN 1
        ELSE IF s.k \in {"num", "bool"} THEN s.v
        ELSE IF s.k = "float" THEN IntOfTenths(s.v)
        ELSE 1

\* line 256
LevelSelected(a) == a.selected_maturity_level.k \notin {"absent", "null"}

\* d.get(key, 0) or 0 : absent, null and 0 all give 0; anything else is kept
\* (a string, "0" too, is truthy)
GetOrZero(f) == IF f.k \in {"absent", "null"} THEN Num(0) ELSE f

\* lines 198-214: <<score_percentage, total_score, max_score>> after coercion.
\* float() reads a number and a numeric string; one value float() rejects
\* sends all three to 0.0 (one try block).
CoercedScore(a) ==
    LET cs == IF a.calculated_score.k = "dict" THEN a.calculated_score ELSE NoScore
        p  == GetOrZero(cs.percentage)
        t  == GetOrZero(cs.total)
        m  == GetOrZero(cs.max)
    IN  IF p.k = "bad" \/ t.k = "bad" \/ m.k = "bad"
        THEN [percentage |-> 0, total |-> 0, max |-> 0]
        ELSE [percentage |-> p.v, total |-> t.v, max |-> m.v]

\* EffectiveLevel with the thresholds compared by <= instead of <
EffectiveLevelInclusive(cl, pct) ==
    IF cl > 1 /\ pct <= 50 THEN Max(1 * 4, cl * 4 - 2)
    ELSE IF cl > 1 /\ pct <= 75 THEN cl * 4 - 1
    ELSE cl * 4

\* lines 218-224, in quarter levels; cl is current_level, pct score_percentage
EffectiveLevel(cl, pct) ==
    IF cl > 1 /\ pct < 50 THEN Max(1 * 4, cl * 4 - 2)
    ELSE IF cl > 1 /\ pct < 75 THEN cl * 4 - 1
    ELSE cl * 4

\* line 235, in quarter levels
Gap(eff) == target_level * 4 - eff

\* lines 244-253: the last entry of maturity_levels whose level equals l
RECURSIVE FindLevel(_, _)
FindLevel(items, l) ==
    IF items = <<>> THEN NoLevelData
    ELSE LET last == items[Len(items)]
         IN  IF last.k = "dict" /\ last.level.k = "num" /\ last.level.v = l
             THEN last
             ELSE FindLevel(SubSeq(items, 1, Len(items) - 1), l)

MaturityItems(a) ==
    IF a.maturity_levels.k = "list" THEN a.maturity_levels.items ELSE <<>>

LevelData(a, l) == FindLevel(MaturityItems(a), l)

\* truthiness of level_N_data
HasData(ld) == ld.k = "dict"

FirstN(s, n) == SubSeq(s, 1, Min(n, Len(s)))

\* [p.get('text', '') for p in ld.get('practices', [])[:n]]
PracticeTexts(ld, n) ==
    LET ps == FirstN(ld.practices.items, n)
    IN  [j \in 1..Len(ps) |-> ps[j].text]

\* line 374; g is the gap in quarter levels, so gap >= 2.5 is g * 10 >= 25 * 4
Impact(g) == IF g * 10 >= 25 * 4 THEN "High" ELSE IF g * 10 >= 15 * 4 THEN "Medium" ELSE "Low"

\* Priority with the thresholds compared by > instead of >=
PriorityStrict(g) ==
    IF g * 10 > 25 * 4 THEN "Critical"
    ELSE IF g * 10 > 15 * 4 THEN "High"
    ELSE IF g * 10 > 5 * 4 THEN "Medium"
    ELSE "Low"

\* line 375
Priority(g) ==
    IF g * 10 >= 25 * 4 THEN "Critical"
    ELSE IF g * 10 >= 15 * 4 THEN "High"
    ELSE IF g * 10 >= 5 * 4 THEN "Medium"
    ELSE "Low"

\* Bucket with the thresholds compared by > instead of >=
BucketStrict(g) ==
    IF g * 10 > 25 * 4 THEN "critical"
    ELSE IF g * 10 > 15 * 4 THEN "moderate"
    ELSE "minor"

\* lines 381-386: the list the record is appended to
Bucket(g) ==
    IF g * 10 >= 25 * 4 THEN "critical"
    ELSE IF g * 10 >= 15 * 4 THEN "moderate"
    ELSE "minor"

\* AppendGap with the second test an if instead of an elif: a critical
\* record is appended to moderate_gaps as well
AppendGapNoElif(list, name, g, gap_info) ==
    IF \/ name = "critical" /\ g * 10 >= 25 * 4
       \/ name = "moderate" /\ g * 10 >= 15 * 4
       \/ name = "minor" /\ g * 10 < 15 * 4
    THEN Append(list, gap_info) ELSE list

\* lines 381-386: what the list called name becomes
AppendGap(list, name, g, gap_info) ==
    IF Bucket(g) = name THEN Append(list, gap_info) ELSE list

\* AssessmentAfter storing the coerced score into the record, as
\* assessment['calculated_score'] = {...} would
AssessmentWithCoercedScore(a, sc) ==
    [a EXCEPT !.calculated_score = Score(sc.total, sc.max, sc.percentage)]

\* lines 184-256: the record after the loop body.  The body reads it with
\* .get() only; line 200 rebinds the local calculated_score, not the key.
AssessmentAfter(a, sc) == a

\* NewAccumulator keeping what the call before left, as a module-level
\* total would
KeptAccumulator(old) == old

\* lines 174-176: every call starts its totals at 0, whatever ran before
NewAccumulator(old) == 0

\* AddWeighted without the max_score > 0 test
AddWeightedUnguarded(acc, sc) == acc + sc.total

\* lines 227-228
AddWeighted(acc, sc) == IF sc.max > 0 THEN acc + sc.total ELSE acc

\* lines 227-229
AddMax(acc, sc) == IF sc.max > 0 THEN acc + sc.max ELSE acc

\* AddLevel summing the selected level instead of the effective one
AddLevelSelected(acc, cl, eff) == acc + 4 * cl

\* line 231; eff is the effective level and cl the selected one
AddLevel(acc, cl, eff) == acc + eff

\* One step of the per-record roadmap, lines 302-309 / 312-319 / 322-329
Step(n, t, ld) ==
    [step |-> n, target_level |-> t, title |-> <<n, t>>,
     description |-> ld.description,
     practices |-> PracticeTexts(ld, 4),
     what_to_do |-> PracticeTexts(ld, 3)]

\* RoadmapToLevel4 with the three tests chained by elif: only the first
\* step that applies is built
RoadmapFirstStepOnly(a, cl) ==
    LET l2 == LevelData(a, 2)
        l3 == LevelData(a, 3)
        l4 == LevelData(a, 4)
    IN  IF cl < 2 /\ HasData(l2) THEN <<Step(1, 2, l2)>>
        ELSE IF cl < 3 /\ HasData(l3) THEN <<Step(IF cl < 2 THEN 2 ELSE 1, 3, l3)>>
        ELSE IF cl < 4 /\ HasData(l4)
             THEN <<Step(IF cl < 3 THEN 3 ELSE (IF cl < 2 THEN 2 ELSE 1), 4, l4)>>
        ELSE <<>>

\* lines 300-329: roadmap_to_level_4 of a record scored at current_level cl
RoadmapToLevel4(a, cl) ==
    LET l2 == LevelData(a, 2)
        l3 == LevelData(a, 3)
        l4 == LevelData(a, 4)
        s2 == IF cl < 2 /\ HasData(l2) THEN <<Step(1, 2, l2)>> ELSE <<>>
        s3 == IF cl < 3 /\ HasData(l3)
              THEN <<Step(IF cl < 2 THEN 2 ELSE 1, 3, l3)>> ELSE <<>>
        s4 == IF cl < 4 /\ HasData(l4)
              THEN <<Step(IF cl < 3 THEN 3 ELSE (IF cl < 2 THEN 2 ELSE 1), 4, l4)>>
              ELSE <<>>
    IN  s2 \o s3 \o s4

\* Building a step fails on practices that are null (None[:4]), on an entry
\* among the first four that is no dict (p.get), and on a null text among the
\* first three (', '.join)
StepRaises(ld) ==
    \/ ld.practices.k = "null"
    \/ \E j \in 1..Min(4, Len(ld.practices.items)) : ld.practices.items[j].k = "notdict"
    \/ \E j \in 1..Min(3, Len(ld.practices.items)) : ld.practices.items[j].k = "nulltext"

\* The loop body raises an exception on this record (nothing in the function
\* catches it): lines 184, 185, 193, 244, 245, 307-308, 317-318, 327-328
Raises(a) ==
    \/ a.k = "notdict"
    \/ a.clause.k \in {"null", "int"}
    \/ a.selected_maturity_level.k = "nan"
    \/ a.maturity_levels.k = "null"
    \/ \E j \in 1..Len(MaturityItems(a)) : MaturityItems(a)[j].k = "notdict"
    \/ \E t \in {2, 3, 4} :
          /\ CurrentLevel(a) < t
          /\ HasData(LevelData(a, t))
          /\ StepRaises(LevelData(a, t))

\* lines 265-290
UserSelectionSummary(a, cl, sc) ==
    << [title |-> "Your Selection",
        selected |-> LevelSelected(a),
        level |-> IF LevelSelected(a) THEN cl ELSE 1,
        description |-> IF LevelSelected(a) THEN LevelData(a, cl).description ELSE "",
        percentage |-> 0],
       [title |-> "Practice Completion",
        selected |-> sc.max > 0 /\ sc.percentage > 0,
        level |-> 0,
        description |-> "",
        percentage |-> IF sc.max > 0 /\ sc.percentage > 0 THEN sc.percentage ELSE 0] >>

\* lines 293-298: two generic lines when the current level has practices and
\* the score is below 100
MissingAtCurrentLevel(a, cl, sc) ==
    LET cur == LevelData(a, cl)
    IN  IF HasData(cur) /\ sc.percentage < 100 /\ cur.practices.items # <<>>
        THEN << <<"Complete remaining practices for Level", cl>>,
                <<"Ensure all practices are implemented for Level", cl>> >>
        ELSE <<>>

\* lines 332-348: the parts of gap_description
GapDescription(a, cl, sc) ==
    [selected |-> LevelSelected(a),
     level |-> IF LevelSelected(a) THEN cl ELSE 1,
     current_state |-> IF LevelSelected(a) THEN LevelData(a, cl).description ELSE "",
     practices |-> IF sc.max > 0
                   THEN (IF sc.percentage = 0 THEN "No practices completed."
                         ELSE "Practice completion")
                   ELSE "Practices not assessed.",
     percentage |-> IF sc.max > 0 THEN sc.percentage ELSE 0]

\* GapDetails carrying the unmet practices of the selected level under the
\* key missing_elements as well
GapDetailsWithMissingElements(a, cl, sc) ==
    [user_selection |-> UserSelectionSummary(a, cl, sc),
     missing_at_current_level |-> MissingAtCurrentLevel(a, cl, sc),
     missing_elements |-> MissingAtCurrentLevel(a, cl, sc),
     roadmap_to_level_4 |-> RoadmapToLevel4(a, cl),
     current_level_description |-> LevelData(a, cl).description,
     level_2_description |-> LevelData(a, 2).description,
     level_3_description |-> LevelData(a, 3).description,
     level_4_description |-> LevelData(a, 4).description]

\* lines 354-362
GapDetails(a, cl, sc) ==
    [user_selection |-> UserSelectionSummary(a, cl, sc),
     missing_at_current_level |-> MissingAtCurrentLevel(a, cl, sc),
     roadmap_to_level_4 |-> RoadmapToLevel4(a, cl),
     current_level_description |-> LevelData(a, cl).description,
     level_2_description |-> LevelData(a, 2).description,
     level_3_description |-> LevelData(a, 3).description,
     level_4_description |-> LevelData(a, 4).description]

\* RoundedLevel rounding to a whole level, round(effective_level), in tenths
RoundedLevelWhole(eff) == 10 * Round(Frac(eff, 4), 1)

\* line 367: round(effective_level, 1), in tenths; eff is in quarter levels,
\* which a float holds exactly, so 1.75 gives 1.8 and 1.25 gives 1.2
RoundedLevel(eff) == Round(Frac(eff, 4), 10)

\* lines 364-377; current_level is kept in tenths
GapInfo(a, cl, sc, eff, g) ==
    [clause |-> ClauseNum(a),
     clause_name |-> ClauseName(a),
     current_level |-> RoundedLevel(eff),
     selected_level |-> cl,
     target_level |-> target_level,
     gap_description |-> GapDescription(a, cl, sc),
     score_percentage |-> sc.percentage,
     total_score |-> sc.total,
     max_score |-> sc.max,
     impact |-> Impact(g),
     priority |-> Priority(g),
     gap_details |-> GapDetails(a, cl, sc)]

----------------------------------------------------------------------------
(* After the loop: lines 388-550 *)

\* gap_details.get(key) is truthy: the key is there and holds something
Truthy(gd, key) == key \in DOMAIN gd /\ gd[key] # <<>>

\* gap_details.get(key, [])
GetList(gd, key) == IF key \in DOMAIN gd THEN gd[key] ELSE <<>>

\* ActionItems with the three tests made on the current (effective) level
\* instead of the selected one
ActionItemsByCurrent(g) ==
    (IF g.current_level < 2 * 10 THEN <<"Immediate">> ELSE <<>>)
    \o (IF g.current_level < 3 * 10 THEN <<"Short-term">> ELSE <<>>)
    \o (IF g.current_level < 4 * 10 THEN <<"Long-term">> ELSE <<>>)

\* lines 422-454: the action items of one recommendation, by their lead-in
ActionItems(g) ==
    LET gd == g.gap_details
        selected == g.selected_level
        current == g.current_level       \* tenths
        a1 == IF selected < 2
              THEN <<"Immediate">> \o
                   [j \in 1..Len(GetList(gd, "required_actions")) |-> "required_action"]
              ELSE <<>>
        a2 == IF selected < 3
              THEN <<"Short-term">> \o
                   (IF Truthy(gd, "practices_to_implement")
                    THEN <<"Key practices to implement">> ELSE <<>>)
              ELSE <<>>
        a3 == IF selected < 4
              THEN <<"Long-term">> \o
                   (IF Truthy(gd, "target_level_description")
                    THEN <<"Target state">> ELSE <<>>)
              ELSE <<>>
        a4 == IF Truthy(gd, "missing_elements")
              THEN <<"Address missing elements">> ELSE <<>>
        specific == a1 \o a2 \o a3 \o a4
        generic == (IF current < 2 * 10 THEN <<"Establish basic documentation">> ELSE <<>>)
                   \o (IF current < 3 * 10 THEN <<"Develop standardized frameworks">> ELSE <<>>)
                   \o (IF current < 4 * 10 THEN <<"Implement automation">> ELSE <<>>)
    IN  IF specific = <<>> THEN generic ELSE specific

\* lines 456-462; gap_size = target - current, in tenths
Timeline(gap_size) ==
    IF gap_size >= 25 THEN "6-12 months"
    ELSE IF gap_size >= 15 THEN "3-6 months"
    ELSE "1-3 months"

\* lines 405-475: the recommendation made from one gap_info
Recommendation(g) ==
    [clause |-> g.clause,
     clause_name |-> g.clause_name,
     current_level |-> g.current_level,
     selected_level |-> g.selected_level,
     target_level |-> g.target_level,
     action_items |-> ActionItems(g),
     timeline |-> Timeline(g.target_level * 10 - g.current_level),
     missing_elements |-> GetList(g.gap_details, "missing_elements"),
     practices_to_implement |-> GetList(g.gap_details, "practices_to_implement")]

Recommendations(gaps) == [j \in 1..Len(gaps) |-> Recommendation(gaps[j])]

ClauseIds(gaps) == [j \in 1..Len(gaps) |-> gaps[j].clause]

\* f"{g['clause']} - {g['clause_name']}"
ClauseRefs(gaps) ==
    [j \in 1..Len(gaps) |-> [clause |-> gaps[j].clause, clause_name |-> gaps[j].clause_name]]

\* Roadmap with phase_1 listing every critical and moderate gap
RoadmapUntruncated(crit, mod, minr) ==
    [phase_1 |-> ClauseIds(crit \o mod),
     phase_2 |-> ClauseIds(crit \o mod),
     phase_3 |-> ClauseIds(crit \o mod \o minr)]

\* lines 478-509
Roadmap(crit, mod, minr) ==
    [phase_1 |-> ClauseIds(FirstN(crit, 5) \o FirstN(mod, 3)),
     phase_2 |-> ClauseIds(crit \o mod),
     phase_3 |-> ClauseIds(crit \o mod \o minr)]

\* PriorityMatrix without the [:5] slices
PriorityMatrixUntruncated(crit, mod, minr) ==
    [quick_wins |-> ClauseRefs(minr),
     strategic_initiatives |-> ClauseRefs(crit),
     foundational_requirements |-> ClauseRefs(mod)]

\* lines 512-516
PriorityMatrix(crit, mod, minr) ==
    [quick_wins |-> ClauseRefs(FirstN(minr, 5)),
     strategic_initiatives |-> ClauseRefs(FirstN(crit, 5)),
     foundational_requirements |-> ClauseRefs(FirstN(mod, 5))]

\* line 390
AvgLevel(level_score, count) == Frac(level_score, 4 * count)

\* line 392
OverallPercentage(weighted, maxs) ==
    IF maxs > 0 THEN Frac(100 * weighted, maxs) ELSE Frac(0, 1)

\* CombinedScore without the 0.6 weight on the level part
CombinedScoreUnweighted(avg, op) == FracAdd(FracScale(avg, 100, 4), FracScale(op, 4, 10))

\* line 394: (avg_level / 4 * 100 * 0.6) + (overall_percentage * 0.4)
CombinedScore(avg, op) == FracAdd(FracScale(avg, 100 * 6, 4 * 10), FracScale(op, 4, 10))

\* lines 526-531: the numbers and names the summary sentence is built from
ExecutiveSummary(maturity, score, count, crit, mod, minr) ==
    [maturity |-> maturity, score |-> score, clauses |-> count,
     critical |-> Len(crit), moderate |-> Len(mod), minor |-> Len(minr),
     focus |-> ClauseRefs(FirstN(crit, 3))]

\* GapsBySeverity starting with the minor gaps
GapsMinorFirst(crit, mod, minr) == minr \o mod \o crit

\* line 405: critical_gaps + moderate_gaps + minor_gaps
GapsBySeverity(crit, mod, minr) == crit \o mod \o minr

\* The function has not returned
NoReport == [k |-> "pending"]

\* return None
PyNone == [k |-> "None"]

\* lines 533-548.  overall_maturity (the number in the "Level x.y" label,
\* line 395) is in tenths, overall_maturity_numeric (line 536) in hundredths,
\* overall_percentage_score (line 397) in tenths.
Report(overall_maturity, overall_maturity_numeric, overall_percentage_score, count, assessed, crit, mod, minr) ==
    [k |-> "report",
     executive_summary |->
         ExecutiveSummary(overall_maturity, overall_percentage_score, count, crit, mod, minr),
     overall_maturity_score |-> overall_maturity,
     overall_maturity_numeric |-> overall_maturity_numeric,
     overall_percentage_score |-> overall_percentage_score,
     total_clauses |-> count,
     assessed_clauses |-> assessed,
     gap_analysis |-> [critical_gaps |-> crit, moderate_gaps |-> mod, minor_gaps |-> minr],
     recommendations |-> Recommendations(GapsBySeverity(crit, mod, minr)),
     roadmap_to_level_4 |-> Roadmap(crit, mod, minr),
     priority_matrix |-> PriorityMatrix(crit, mod, minr)]

----------------------------------------------------------------------------
(* The calls the model makes: lists of at most MaxRecs records *)

Practices5 ==
    PracticeList(<<Practice("pa"), Practice("pb"), Practice("pc"), Practice("pd"), Practice("pe")>>)

L1 == Level(Num(1), "d1", Practices5)

L2 == Level(Num(2), "d2", Practices5)

L3 == Level(Num(3), "d3", Practices5)

L4 == Level(Num(4), "d4", Practices5)

FullLevels == LevelList(<<L1, L2, L3, L4>>)

\* A level entry whose practices are ps
L2With(ps) == Level(Num(2), "d2", ps)

L3With(ps) == Level(Num(3), "d3", ps)

ClauseNumbers ==
    <<"4.1", "4.2", "4.3", "4.4", "4.5", "4.6", "4.7", "4.8", "4.9", "4.10", "4.11", "4.12",
      "4.13", "4.14", "4.15", "4.16", "4.17", "4.18", "4.19", "4.20", "4.21", "4.22", "4.23",
      "4.24">>

\* The clause of the record at position j of the input list, by kind: a
\* number and a title, a number alone, a number and a two-word title, or a
\* missing, null or non-string clause
ClauseAt(j, ck) ==
    CASE ck = "two"    -> Clause(<<ClauseNumbers[j], "Title">>)
      [] ck = "one"    -> Clause(<<ClauseNumbers[j]>>)
      [] ck = "three"  -> Clause(<<ClauseNumbers[j], "Long", "Title">>)
      [] ck = "absent" -> NoClause
      [] ck = "null"   -> NullClause
      [] ck = "int"    -> IntClause

\* The shape of a record: everything but the clause number
Shape(ck, sel, cs, mls) == [rk |-> "dict", ck |-> ck, sel |-> sel, cs |-> cs, mls |-> mls]

NotDictShape == [rk |-> "notdict", ck |-> "absent", sel |-> Absent, cs |-> NoScore, mls |-> NoLevels]

Plain(sel, cs) == Shape("two", sel, cs, FullLevels)

\* Records of the shape the generator and save_selections produce: a level
\* in 1..4 or none, a score with total <= max and a percentage in 0..100
WellFormedShapes ==
    { Plain(Absent, NoScore),
      Plain(Num(1), Score(3, 10, 30)),
      Plain(Num(2), NoScore),
      Plain(Num(2), Score(1, 2, 50)),
      Plain(Num(2), Score(3, 4, 75)),
      Plain(Num(3), Score(3, 10, 30)),
      Plain(Num(3), Score(2, 3, 67)),
      Plain(Num(3), Score(8, 10, 80)),
      Plain(Num(4), Score(0, 2, 0)),
      Plain(Num(4), Score(1, 2, 50)),
      Plain(Num(4), Score(2, 2, 100)) }

\* A score whose max is 0 while total and percentage are not
ZeroMaxShapes == { Plain(Num(2), Score(3, 0, 80)) }

ScoreShapes == WellFormedShapes \cup ZeroMaxShapes

\* Numeric fields out of range
OutOfRangeShapes ==
    { Plain(Num(5), Score(2, 2, 100)),
      Plain(Num(3), Score(5, 2, 250)),
      Plain(Num(0), NoScore) }

\* Records with maturity_levels entries missing or repeated
RoadmapShapes ==
    { Shape("two", sel, NoScore, mls) :
        sel \in {Absent, Num(2), Num(3)},
        mls \in { LevelList(<<L1, L3, L4>>), LevelList(<<L1, L2, L4>>),
                  LevelList(<<L1, L2, L3>>), NoLevels } }
    \cup { Shape("two", Absent, NoScore, LevelList(<<L1, L4>>)),
           Shape("two", Absent, NoScore, LevelList(<<L4, L3, L2, L1>>)),
           Shape("two", Absent, NoScore,
                 LevelList(<<L1, L2With(NoPractices), Level(Num(2), "d2bis", Practices5), L3, L4>>)),
           Shape("two", Absent, NoScore,
                 LevelList(<<L1, Level(Absent, "dx", Practices5), L3, L4>>)) }

\* Records with missing, null or wrongly typed fields
MalformedShapes ==
    { NotDictShape,
      Shape("one", Num(2), NoScore, FullLevels),
      Shape("three", Num(2), NoScore, FullLevels),
      Shape("absent", Num(2), NoScore, FullLevels),
      Shape("null", Num(2), NoScore, FullLevels),
      Shape("int", Num(2), NoScore, FullLevels),
      Plain(Null, NoScore),
      Plain(Bad, Score(3, 4, 75)),
      Plain([k |-> "float", v |-> 27], Score(3, 4, 75)),
      Plain([k |-> "bool", v |-> 1], NoScore),
      Plain([k |-> "bool", v |-> 0], Score(3, 4, 75)),
      Plain(NumStr(3), Score(8, 10, 80)),
      Plain(Num(3), ScoreDict(NumStr(8), NumStr(10), NumStr(80))),
      Plain(Num(3), ScoreDict(Num(8), Num(10), Null)),
      Plain(Num(3), ScoreDict(Num(8), Bad, Num(80))),
      Plain([k |-> "nan", v |-> 0], NoScore),
      Plain(Num(2), NotDictScore),
      Plain(Num(2), ScoreDict(Num(3), Num(4), Bad)),
      Plain(Num(2), ScoreDict(Bad, Num(4), Num(60))),
      Plain(Num(2), ScoreDict(Null, Num(4), Num(60))),
      Plain(Num(2), ScoreDict(Num(3), Absent, Num(75))),
      Shape("two", Absent, NoScore, NullLevels),
      Shape("two", Absent, NoScore, LevelList(<<L1, NotDictLevel>>)),
      Shape("two", Absent, NoScore, LevelList(<<L1, L2With(NullPractices), L3, L4>>)),
      Shape("two", Num(3), NoScore, LevelList(<<L1, L2With(NullPractices), L3, L4>>)),
      Shape("two", Absent, NoScore,
            LevelList(<<L1, L2, L3With(PracticeList(<<NotDictPractice, Practice("pb")>>)), L4>>)),
      Shape("two", Absent, NoScore,
            LevelList(<<L1, L2, L4,
                        L3With(PracticeList(<<Practice("pa"), Practice("pb"), Practice("pc"),
                                              Practice("pd"), NotDictPractice>>))>>)),
      Shape("two", Absent, NoScore,
            LevelList(<<L1, L2, L3With(PracticeList(<<Practice("pa"), NullTextPractice>>)), L4>>)),
      Shape("two", Absent, NoScore,
            LevelList(<<L1, L2, L4,
                        L3With(PracticeList(<<Practice("pa"), Practice("pb"), Practice("pc"),
                                              NullTextPractice>>))>>)) }

OddShapes == RoadmapShapes \cup MalformedShapes \cup OutOfRangeShapes

\* The record of shape sh at position j
RecordOf(sh, j) ==
    IF sh.rk = "dict" THEN Rec(ClauseAt(j, sh.ck), sh.sel, sh.cs, sh.mls) ELSE NotDictRec

\* The list made of the shapes f[1], ..., f[n]
InputOf(n, f) == [j \in 1..n |-> RecordOf(f[j], j)]

----------------------------------------------------------------------------
(* The state machine *)

\* The argument: at most maxn records of ScoreShapes, or fewer than maxodd
\* of them and then one of OddShapes
InputIs(maxn, maxodd) ==
    \/ \E n \in 0..maxn : \E f \in [1..n -> ScoreShapes] :
          assessments = InputOf(n, f)
    \/ \E n \in 1..maxodd : \E f \in [1..(n - 1) -> ScoreShapes] : \E o \in OddShapes :
          assessments = Append(InputOf(n - 1, f), RecordOf(o, n))

\* One record shape for each gap list: no selection (gap 3.0), level 3 with
\* 30% (gap 1.5), level 3 with 80% (gap 1.0)
ShapeOfKind(kind) ==
    CASE kind = "critical" -> Plain(Absent, NoScore)
      [] kind = "moderate" -> Plain(Num(3), Score(3, 10, 30))
      [] kind = "minor"    -> Plain(Num(3), Score(8, 10, 80))

\* n times the kind
Repeated(kind, n) == [j \in 1..n |-> kind]

\* The kinds in blocks, in the order ord of the three kinds; n[kind] is the
\* number of records of the kind
InBlocks(ord, n) ==
    Repeated(ord[1], n[ord[1]]) \o Repeated(ord[2], n[ord[2]]) \o Repeated(ord[3], n[ord[3]])

\* The kinds in turn: minor, moderate, critical, minor, ... while any is left
RECURSIVE InTurn(_, _, _)
InTurn(c, m, k) ==
    IF c = 0 /\ m = 0 /\ k = 0 THEN <<>>
    ELSE (IF k > 0 THEN <<"minor">> ELSE <<>>)
         \o (IF m > 0 THEN <<"moderate">> ELSE <<>>)
         \o (IF c > 0 THEN <<"critical">> ELSE <<>>)
         \o InTurn(Max(c - 1, 0), Max(m - 1, 0), Max(k - 1, 0))

BlockOrders ==
    { <<"critical", "moderate", "minor">>, <<"critical", "minor", "moderate">>,
      <<"moderate", "critical", "minor">>, <<"moderate", "minor", "critical">>,
      <<"minor", "critical", "moderate">>, <<"minor", "moderate", "critical">> }

\* The list of the records of the kinds in kinds
InputOfKinds(kinds) == [j \in 1..Len(kinds) |-> RecordOf(ShapeOfKind(kinds[j]), j)]

\* The argument: up to MaxCritical, MaxModerate and MaxMinor records of the
\* three kinds, in blocks or in turn
InputFillsGapLists ==
    \E c \in 0..MaxCritical, m \in 0..MaxModerate, k \in 0..MaxMinor :
        \/ \E ord \in BlockOrders :
              assessments =
                  InputOfKinds(InBlocks(ord, [critical |-> c, moderate |-> m, minor |-> k]))
        \/ assessments = InputOfKinds(InTurn(c, m, k))

\* No call came before
NoCall == [pc |-> "none", report |-> NoReport]

\* lines 168-181: the first call is about to start
FirstCall ==
    /\ calls = 1
    /\ previous = NoCall
    /\ float_results = {}
    /\ pc = "start"
    /\ total_weighted_score = 0
    /\ total_max_score = 0
    /\ total_level_score = 0
    /\ clause_count = 0
    /\ critical_gaps = <<>>
    /\ moderate_gaps = <<>>
    /\ minor_gaps = <<>>
    /\ assessed_clauses = <<>>
    /\ current_level = 0
    /\ score_percentage = 0
    /\ effective_level = 0
    /\ gap = 0
    /\ report = NoReport

Init == InputIs(MaxRecs, MaxOddRecs) /\ FirstCall /\ NoServer

\* The same, for a list that is scored MaxCalls times
InitCalls == InputIs(MaxCallRecs, MaxOddRecs) /\ FirstCall /\ NoServer

\* The same, for a list that fills the gap lists
InitGapLists == InputFillsGapLists /\ FirstCall /\ NoServer

\* lines 170-181: an empty list returns None, anything else enters the loop
EmptyCheck ==
    /\ pc = "start"
    /\ IF assessments = <<>>
       THEN pc' = "done" /\ report' = PyNone
       ELSE pc' = "loop" /\ report' = report
    /\ UNCHANGED <<assessments, total_weighted_score, total_max_score, total_level_score,
                   clause_count, critical_gaps, moderate_gaps, minor_gaps, assessed_clauses,
                   current_level, score_percentage, effective_level, gap,
                   calls, previous, float_results>>
    /\ UNCHANGED server_vars

\* lines 183-386: one iteration of the loop, on the next record
ProcessAssessment ==
    /\ pc = "loop"
    /\ clause_count < Len(assessments)
    /\ LET a   == assessments[clause_count + 1]
           cl  == CurrentLevel(a)
           sc  == CoercedScore(a)
           eff == EffectiveLevel(cl, sc.percentage)
           g   == Gap(eff)
           gap_info == GapInfo(a, cl, sc, eff, g)
       IN  IF Raises(a)
           THEN /\ pc' = "raised"
                /\ UNCHANGED <<assessments, total_weighted_score, total_max_score, total_level_score,
                               clause_count, critical_gaps, moderate_gaps, minor_gaps,
                               assessed_clauses, current_level, score_percentage,
                               effective_level, gap>>
           ELSE /\ pc' = "loop"
                /\ current_level' = cl
                /\ score_percentage' = sc.percentage
                /\ effective_level' = eff
                /\ gap' = g
                /\ total_weighted_score' = AddWeighted(total_weighted_score, sc)
                /\ total_max_score' = AddMax(total_max_score, sc)
                /\ total_level_score' = AddLevel(total_level_score, cl, eff)
                /\ clause_count' = clause_count + 1
                /\ assessed_clauses' = Append(assessed_clauses, gap_info)
                /\ critical_gaps' = AppendGap(critical_gaps, "critical", g, gap_info)
                /\ moderate_gaps' = AppendGap(moderate_gaps, "moderate", g, gap_info)
                /\ minor_gaps' = AppendGap(minor_gaps, "minor", g, gap_info)
                /\ assessments' = [assessments EXCEPT ![clause_count + 1] = AssessmentAfter(a, sc)]
    /\ UNCHANGED <<report, calls, previous, float_results>>
    /\ UNCHANGED server_vars

\* lines 388-550: the loop is over, the report is built and returned
BuildReport ==
    /\ pc = "loop"
    /\ clause_count = Len(assessments)
    /\ LET avg_level == AvgLevel(total_level_score, clause_count)
           overall_percentage == OverallPercentage(total_weighted_score, total_max_score)
           combined_score == CombinedScore(avg_level, overall_percentage)
       IN  IF clause_count > 0
           THEN \E overall_maturity \in
                     FloatResult(float_results, "div", avg_level, 10,
                                 RoundQuotient(avg_level, 10)) :
                \E overall_maturity_numeric \in
                     FloatResult(float_results, "div", avg_level, 100,
                                 RoundQuotient(avg_level, 100)) :
                \E overall_percentage_score \in
                     FloatResult(float_results, "mix", combined_score, 10,
                                 RoundFloat(combined_score, 10)) :
                    /\ report' = Report(overall_maturity, overall_maturity_numeric,
                                        overall_percentage_score, clause_count, assessed_clauses,
                                        critical_gaps, moderate_gaps, minor_gaps)
                    /\ float_results' = float_results \cup
                           { [op |-> "div", x |-> avg_level, scale |-> 10, r |-> overall_maturity],
                             [op |-> "div", x |-> avg_level, scale |-> 100,
                              r |-> overall_maturity_numeric],
                             [op |-> "mix", x |-> combined_score, scale |-> 10,
                              r |-> overall_percentage_score] }
           ELSE /\ report' = Report(10, 100, 0, clause_count, assessed_clauses,
                                    critical_gaps, moderate_gaps, minor_gaps)
                /\ float_results' = float_results
    /\ pc' = "done"
    /\ UNCHANGED <<assessments, total_weighted_score, total_max_score, total_level_score,
                   clause_count, critical_gaps, moderate_gaps, minor_gaps, assessed_clauses,
                   current_level, score_percentage, effective_level, gap, calls, previous>>
    /\ UNCHANGED server_vars

\* The caller calls generate_compliance_report once more on the same list.
\* Lines 174-181 give the new call its own totals and lists; nothing of the
\* call before is read.
CallAgain ==
    /\ pc \in {"done", "raised"}
    /\ calls < MaxCalls
    /\ calls' = calls + 1
    /\ previous' = [pc |-> pc, report |-> report]
    /\ pc' = "start"
    /\ total_weighted_score' = NewAccumulator(total_weighted_score)
    /\ total_max_score' = NewAccumulator(total_max_score)
    /\ total_level_score' = NewAccumulator(total_level_score)
    /\ clause_count' = 0
    /\ critical_gaps' = <<>>
    /\ moderate_gaps' = <<>>
    /\ minor_gaps' = <<>>
    /\ assessed_clauses' = <<>>
    /\ current_level' = 0
    /\ score_percentage' = 0
    /\ effective_level' = 0
    /\ gap' = 0
    /\ report' = NoReport
    /\ UNCHANGED <<assessments, float_results>>
    /\ UNCHANGED server_vars

Next == EmptyCheck \/ ProcessAssessment \/ BuildReport

Spec == Init /\ [][Next]_vars

\* One call on a list that fills the gap lists
SpecGapLists == InitGapLists /\ [][Next]_vars

NextCalls == Next \/ CallAgain

\* One list scored MaxCalls times in a row
SpecCalls == InitCalls /\ [][NextCalls]_vars

----------------------------------------------------------------------------
(* Properties.  Levels and gaps are in quarter levels: 1.5 is 6, 2.5 is    *)
(* 10, 4 is 16.                                                            *)

\* The function returned a report
Returned == pc = "done" /\ report.k = "report"

\* The record the loop processed last, and what the loop stored for it
LastRecord == assessments[clause_count]

LastGapInfo == assessed_clauses[clause_count]

HasClause(list, c) == \E j \in 1..Len(list) : list[j].clause = c

\* How often clause c occurs in list
Occurrences(list, c) == Cardinality({j \in 1..Len(list) : list[j].clause = c})

\* The position of the record with clause number c in the input
PositionOf(c) == CHOOSE i \in 1..Len(assessments) : ClauseNum(assessments[i]) = c

\* The recursive sum of f over 1..n
RECURSIVE SumTo(_, _)
SumTo(f, n) == IF n = 0 THEN 0 ELSE f[n] + SumTo(f, n - 1)

\* C1: once a record has been processed, its effective level is
\* max(1, current_level - 0.5) when current_level > 1 and the percentage is
\* below 50, current_level - 0.25 when current_level > 1 and the percentage
\* is in [50, 75), current_level otherwise, where current_level is the
\* selected level (1 when none is selected); and gap = 4 - effective level.
C1_EffectiveLevel ==
    clause_count >= 1 =>
        /\ LastRecord.selected_maturity_level.k = "absent" => current_level = 1
        /\ LastRecord.selected_maturity_level.k = "num" =>
               current_level = LastRecord.selected_maturity_level.v
        /\ (LastRecord.calculated_score.k = "dict"
              /\ LastRecord.calculated_score.percentage.k = "num"
              /\ LastRecord.calculated_score.total.k = "num"
              /\ LastRecord.calculated_score.max.k = "num")
             => score_percentage = LastRecord.calculated_score.percentage.v
        /\ LastRecord.calculated_score.k = "absent" => score_percentage = 0
        /\ (current_level > 1 /\ score_percentage < 50) =>
               /\ 2 * effective_level = 2 * 4 * current_level - 4
               /\ effective_level >= 4
        /\ (current_level > 1 /\ score_percentage >= 50 /\ score_percentage < 75) =>
               effective_level = 4 * current_level - 1
        /\ (current_level <= 1 \/ score_percentage >= 75) =>
               effective_level = 4 * current_level
        /\ gap = 16 - effective_level

\* C1 witness: a record selected at level 2 with less than half of the
\* practices is scored at 1.5 with gap 2.5, after a record at level 3 and 80%
\* scored at 3 with gap 1.0
C1_Witness ==
    /\ clause_count = 2
    /\ assessed_clauses[1].selected_level = 3
    /\ assessed_clauses[1].score_percentage = 80
    /\ assessed_clauses[1].current_level = 30
    /\ current_level = 2
    /\ score_percentage < 50
    /\ effective_level = 6
    /\ gap = 10

\* C2: a processed record is in critical_gaps when its gap is at least 2.5,
\* in moderate_gaps when the gap is in [1.5, 2.5), in minor_gaps otherwise,
\* and in no other list.
C2_Classification ==
    clause_count >= 1 =>
        LET c == LastGapInfo.clause
        IN  /\ gap >= 10 =>
                 /\ HasClause(critical_gaps, c)
                 /\ ~HasClause(moderate_gaps, c)
                 /\ ~HasClause(minor_gaps, c)
            /\ (gap >= 6 /\ gap < 10) =>
                 /\ ~HasClause(critical_gaps, c)
                 /\ HasClause(moderate_gaps, c)
                 /\ ~HasClause(minor_gaps, c)
            /\ gap < 6 =>
                 /\ ~HasClause(critical_gaps, c)
                 /\ ~HasClause(moderate_gaps, c)
                 /\ HasClause(minor_gaps, c)

\* C2 witness: the boundary gaps 2.5 and 1.5 went to critical and moderate,
\* and a gap of 1.25 to minor
C2_Witness ==
    /\ clause_count = 3
    /\ Len(critical_gaps) = 1 /\ critical_gaps[1].current_level = 15
    /\ Len(moderate_gaps) = 1 /\ moderate_gaps[1].current_level = 25
    /\ Len(minor_gaps) = 1 /\ gap = 5

\* C3: in a returned report the three gap lists partition the input: every
\* input record is in exactly one list, once; each list keeps input order;
\* the lengths sum to total_clauses, the number of input records.
C3_Partition ==
    Returned =>
        LET ga == report.gap_analysis
            all == ga.critical_gaps \o ga.moderate_gaps \o ga.minor_gaps
            Ordered(list) ==
                \A j, m \in 1..Len(list) :
                    j < m => PositionOf(list[j].clause) < PositionOf(list[m].clause)
        IN  /\ \A i \in 1..Len(assessments) :
                   Occurrences(all, ClauseNum(assessments[i])) = 1
            /\ Ordered(ga.critical_gaps)
            /\ Ordered(ga.moderate_gaps)
            /\ Ordered(ga.minor_gaps)
            /\ Len(all) = report.total_clauses
            /\ report.total_clauses = Len(assessments)

\* C3 witness: a report over three records with two of them in one list and
\* the record between them in another
C3_Witness ==
    /\ Returned
    /\ Len(assessments) = 3
    /\ Len(report.gap_analysis.critical_gaps) = 2
    /\ report.gap_analysis.critical_gaps[1].clause = ClauseNum(assessments[1])
    /\ report.gap_analysis.critical_gaps[2].clause = ClauseNum(assessments[3])
    /\ Len(report.gap_analysis.minor_gaps) = 1

\* C4: on the empty list the function returns the empty report: maturity
\* label "Level 1.0", overall_percentage_score 0, total_clauses 0.
C4_EmptyReport ==
    (pc = "done" /\ assessments = <<>>) =>
        /\ report.k = "report"
        /\ report.overall_maturity_score = 10
        /\ report.overall_percentage_score = 0
        /\ report.total_clauses = 0

\* A record with a level in 1..4 or none and a score, if any, with
\* 0 <= total <= max and 0 <= percentage <= 100
WellFormedRecord(a) ==
    /\ a.k = "dict"
    /\ \/ a.selected_maturity_level.k = "absent"
       \/ a.selected_maturity_level.k = "num" /\ a.selected_maturity_level.v \in 1..4
    /\ \/ a.calculated_score.k = "absent"
       \/ /\ a.calculated_score.k = "dict"
          /\ a.calculated_score.total.k = "num"
          /\ a.calculated_score.max.k = "num"
          /\ a.calculated_score.percentage.k = "num"
          /\ 0 <= a.calculated_score.total.v
          /\ a.calculated_score.total.v <= a.calculated_score.max.v
          /\ a.calculated_score.percentage.v \in 0..100

WellFormedInput == \A i \in 1..Len(assessments) : WellFormedRecord(assessments[i])

\* C5: the report of a non-empty list of well-formed records has
\* 0 <= overall_percentage_score <= 100.
C5_PercentageInRange ==
    (Returned /\ WellFormedInput) =>
        report.overall_percentage_score >= 0 /\ report.overall_percentage_score <= 100 * 10

\* C5 witness: well-formed records that reach the upper end, 100.0
C5_Witness ==
    /\ Returned
    /\ WellFormedInput
    /\ Len(assessments) = 2
    /\ report.overall_percentage_score = 100 * 10

\* The score fields the code reads from record i
ScoreAt(i) == CoercedScore(assessments[i])

\* The effective level of record i, in quarter levels
EffectiveAt(i) == EffectiveLevel(CurrentLevel(assessments[i]), ScoreAt(i).percentage)

\* The records whose max_score > 0
Scored == {i \in 1..Len(assessments) : ScoreAt(i).max > 0}

\* The mean of the effective levels of all records
MeanLevel ==
    Frac(SumTo([i \in 1..Len(assessments) |-> EffectiveAt(i)], Len(assessments)),
         4 * Len(assessments))

\* 100 * sum(total) / sum(max) over the records with max > 0; 0 without any
WeightedPercentage ==
    LET t == SumTo([i \in 1..Len(assessments) |-> IF i \in Scored THEN ScoreAt(i).total ELSE 0],
                   Len(assessments))
        m == SumTo([i \in 1..Len(assessments) |-> IF i \in Scored THEN ScoreAt(i).max ELSE 0],
                   Len(assessments))
    IN  IF Scored = {} THEN Frac(0, 1) ELSE Frac(100 * t, m)

\* C6: overall_percentage_score = round(0.6 * (avg_level / 4 * 100)
\* + 0.4 * overall_percentage, 1), overall_percentage being the ratio of the
\* summed totals to the summed maxima of the records with max_score > 0, and
\* 0 when there is none (round() as the float arithmetic gives it: a value
\* that is exactly halfway goes to one of its two neighbours).
C6_CombinedScore ==
    Returned =>
        report.overall_percentage_score \in
            RoundFloat(FracAdd(FracScale(FracScale(MeanLevel, 100, 4), 6, 10),
                               FracScale(WeightedPercentage, 4, 10)), 10)

\* C6 witness: three records, one without a positive max but with a total,
\* two with different maxima, so that the ratio of sums (4/6) differs from
\* the mean of the percentages
C6_Witness ==
    /\ Returned
    /\ Len(assessments) = 3
    /\ Cardinality(Scored) = 2
    /\ \E i \in 1..3 : i \notin Scored /\ ScoreAt(i).total > 0
    /\ \E i, j \in Scored : ScoreAt(i).max = 2 /\ ScoreAt(j).max = 4
    /\ report.overall_percentage_score = 554

\* C7: the reported average level is the mean of the effective levels of
\* all records: overall_maturity_numeric is that mean to two decimals and
\* the label shows it to one decimal.
C7_AverageLevel ==
    Returned =>
        /\ report.overall_maturity_numeric \in RoundQuotient(MeanLevel, 100)
        /\ report.overall_maturity_score \in RoundQuotient(MeanLevel, 10)

\* C7 witness: levels 1, 1 and 2 selected, the last one adjusted to 1.5,
\* the first two without a score: the mean is 3.5 / 3, reported as 1.17
\* and "Level 1.2"
C7_Witness ==
    /\ Returned
    /\ Len(assessments) = 3
    /\ \E i \in 1..3 : ScoreAt(i).max = 0
    /\ \E i \in 1..3 : EffectiveAt(i) # 4 * CurrentLevel(assessments[i])
    /\ report.overall_maturity_numeric = 117
    /\ report.overall_maturity_score = 12

\* maturity_levels of record a has an entry with level t
HasEntry(a, t) ==
    \E j \in 1..Len(a.maturity_levels.items) :
        /\ a.maturity_levels.items[j].k = "dict"
        /\ a.maturity_levels.items[j].level = Num(t)

\* The roadmap stored for the record processed last
LastSteps == LastGapInfo.gap_details.roadmap_to_level_4

HasStep(t) == \E j \in 1..Len(LastSteps) : LastSteps[j].target_level = t

C9_SequentialSteps ==
    clause_count >= 1 =>
        \A j \in 1..Len(LastSteps) : LastSteps[j].step = j

\* C10: no call leaves generate_compliance_report with an exception.
C10_NeverRaises == pc # "raised"

\* What field f of the calculated_score of record a is scored as when each
\* field is coerced by itself: its number, and 0 when the score is no
\* mapping or the field is missing, null or non-numeric
FieldwiseScore(a, f) ==
    IF a.calculated_score.k = "dict" /\ a.calculated_score[f].k \in {"num", "numstr"}
    THEN a.calculated_score[f].v
    ELSE 0

\* C11: a processed record is scored with every calculated_score field that
\* is missing, null or non-numeric (or all three, when calculated_score is
\* no mapping) coerced to 0, while the well-formed fields of the same record
\* keep their values.
C11_FieldwiseCoercion ==
    clause_count >= 1 =>
        /\ LastGapInfo.score_percentage = FieldwiseScore(LastRecord, "percentage")
        /\ LastGapInfo.total_score = FieldwiseScore(LastRecord, "total")
        /\ LastGapInfo.max_score = FieldwiseScore(LastRecord, "max")
        /\ score_percentage = FieldwiseScore(LastRecord, "percentage")

C13_Deterministic ==
    (calls >= 2 /\ pc \in {"done", "raised"}) =>
        /\ previous.pc = pc
        /\ previous.report = report

\* C13 witness: the second call on a list of two records has returned the
\* report of the first, whose score was rounded from a value exactly
\* halfway between two tenths
C13_Witness ==
    /\ calls = 2
    /\ Returned
    /\ Len(assessments) = 2
    /\ previous.pc = "done"
    /\ previous.report = report
    /\ \E e \in float_results : e.op = "mix" /\ IsTie(e.x, e.scale)

\* C14: no step of generate_compliance_report changes the list it was
\* given, nor a record, calculated_score or maturity_levels in it.
C14_ReadOnly == [][assessments' = assessments]_vars

\* C14 witness: a report was returned for a list whose records have no
\* calculated_score and a calculated_score that is no mapping, both scored
\* as 0 and both still as given
C14_Witness ==
    /\ Returned
    /\ Len(assessments) = 2
    /\ assessments[1].calculated_score = NoScore
    /\ assessments[2].calculated_score = NotDictScore
    /\ report.assessed_clauses[1].max_score = 0
    /\ report.assessed_clauses[2].max_score = 0

\* The clause numbers of the input records 1..n whose gap g, in quarter
\* levels, has lo <= g < hi, in input order
RECURSIVE ClausesWithGap(_, _, _)
ClausesWithGap(n, lo, hi) ==
    IF n = 0 THEN <<>>
    ELSE LET g == 16 - EffectiveAt(n)
         IN  IF lo <= g /\ g < hi
             THEN Append(ClausesWithGap(n - 1, lo, hi), ClauseNum(assessments[n]))
             ELSE ClausesWithGap(n - 1, lo, hi)

\* The input records with a critical, a moderate and a minor gap
CriticalClauses == ClausesWithGap(Len(assessments), 10, 1000)

ModerateClauses == ClausesWithGap(Len(assessments), 6, 10)

MinorClauses == ClausesWithGap(Len(assessments), -1000, 6)

\* C15: a returned report has one recommendation per input record; the
\* recommendations of the records with a critical gap come first, then
\* those with a moderate gap, then those with a minor gap, each group in
\* input order.
C15_RecommendationOrder ==
    Returned =>
        /\ Len(report.recommendations) = Len(assessments)
        /\ [j \in 1..Len(report.recommendations) |-> report.recommendations[j].clause]
               = CriticalClauses \o ModerateClauses \o MinorClauses

\* C15 witness: three records given as minor, critical, critical come out
\* as the two critical ones in input order and then the minor one
C15_Witness ==
    /\ Returned
    /\ Len(assessments) = 3
    /\ Len(MinorClauses) = 1
    /\ report.recommendations[1].clause = ClauseNum(assessments[2])
    /\ report.recommendations[2].clause = ClauseNum(assessments[3])
    /\ report.recommendations[3].clause = ClauseNum(assessments[1])

\* The timeline that goes with a gap g in quarter levels
TimelineOfGap(g) ==
    IF g >= 10 THEN "6-12 months" ELSE IF g >= 6 THEN "3-6 months" ELSE "1-3 months"

\* C16: the timeline of every recommendation is "6-12 months" when the gap
\* of its record (4 - effective level, unrounded) is at least 2.5, "3-6
\* months" when it is at least 1.5, "1-3 months" otherwise; so it is "6-12
\* months" exactly for the records in critical_gaps, "3-6 months" exactly
\* for those in moderate_gaps and "1-3 months" exactly for those in
\* minor_gaps, although the recommendation takes the gap from the level
\* rounded to one decimal.
C16_TimelineMatchesBucket ==
    Returned =>
        \A j \in 1..Len(report.recommendations) :
            LET r == report.recommendations[j]
                g == 16 - EffectiveAt(PositionOf(r.clause))
            IN  /\ r.timeline = TimelineOfGap(g)
                /\ r.timeline = "6-12 months" <=>
                       HasClause(report.gap_analysis.critical_gaps, r.clause)
                /\ r.timeline = "3-6 months" <=>
                       HasClause(report.gap_analysis.moderate_gaps, r.clause)
                /\ r.timeline = "1-3 months" <=>
                       HasClause(report.gap_analysis.minor_gaps, r.clause)

\* C16 witness: a record at effective level 1.75 (gap 2.25, rounded level
\* 1.8, gap size 2.2) with "3-6 months", one at 1.5 (gap exactly 2.5) with
\* "6-12 months" and one at 2.75 (rounded 2.8) with "1-3 months"
C16_Witness ==
    /\ Returned
    /\ Len(report.recommendations) = 3
    /\ report.recommendations[1].current_level = 15
    /\ report.recommendations[1].timeline = "6-12 months"
    /\ report.recommendations[2].current_level = 18
    /\ report.recommendations[2].timeline = "3-6 months"
    /\ report.recommendations[3].current_level = 28
    /\ report.recommendations[3].timeline = "1-3 months"

\* The items of list s
Items(s) == {s[j] : j \in 1..Len(s)}

\* C17: the action items of every recommendation hold the "Immediate"
\* (Level 2) item exactly when the selected level of its record is below 2,
\* the "Short-term" (Level 3) item exactly when it is below 3 and the
\* "Long-term" (Level 4) item exactly when it is below 4, in that order and
\* with nothing between them; no item is made from required_actions,
\* practices_to_implement, target_level_description or missing_elements.
C17_ActionItemsBySelectedLevel ==
    Returned =>
        \A j \in 1..Len(report.recommendations) :
            LET r == report.recommendations[j]
                selected == CurrentLevel(assessments[PositionOf(r.clause)])
                gated == (IF selected < 2 THEN <<"Immediate">> ELSE <<>>)
                         \o (IF selected < 3 THEN <<"Short-term">> ELSE <<>>)
                         \o (IF selected < 4 THEN <<"Long-term">> ELSE <<>>)
            IN  /\ "Immediate" \in Items(r.action_items) <=> selected < 2
                /\ "Short-term" \in Items(r.action_items) <=> selected < 3
                /\ "Long-term" \in Items(r.action_items) <=> selected < 4
                /\ selected < 4 => r.action_items = gated
                /\ Items(r.action_items) \cap
                       {"required_action", "Key practices to implement", "Target state",
                        "Address missing elements"} = {}

\* C17 witness: a record selected at level 2 and scored at 1.5 has the
\* Short-term and Long-term items only, a record without a selection all
\* three, a record selected at level 4 none of them
C17_Witness ==
    /\ Returned
    /\ \E j \in 1..Len(report.recommendations) :
           /\ report.recommendations[j].selected_level = 2
           /\ report.recommendations[j].current_level = 15
           /\ report.recommendations[j].action_items = <<"Short-term", "Long-term">>
    /\ \E j \in 1..Len(report.recommendations) :
           /\ report.recommendations[j].selected_level = 1
           /\ report.recommendations[j].action_items = <<"Immediate", "Short-term", "Long-term">>
    /\ \E j \in 1..Len(report.recommendations) :
           /\ report.recommendations[j].selected_level = 4
           /\ Items(report.recommendations[j].action_items)
                  \cap {"Immediate", "Short-term", "Long-term"} = {}

\* C20: the impact of a processed record is High when its gap is at least
\* 2.5, Medium when at least 1.5, Low otherwise; its priority is Critical
\* when the gap is at least 2.5, High when at least 1.5, Medium when at
\* least 0.5, Low otherwise; it is in critical_gaps exactly when priority is
\* Critical and impact High, in moderate_gaps exactly when priority is High
\* and impact Medium, in minor_gaps exactly when impact is Low.
C20_ImpactAndPriority ==
    clause_count >= 1 =>
        LET g == LastGapInfo
        IN  /\ g.impact = (IF gap >= 10 THEN "High" ELSE IF gap >= 6 THEN "Medium" ELSE "Low")
            /\ g.priority = (IF gap >= 10 THEN "Critical"
                             ELSE IF gap >= 6 THEN "High"
                             ELSE IF gap >= 2 THEN "Medium"
                             ELSE "Low")
            /\ HasClause(critical_gaps, g.clause) <=>
                   (g.priority = "Critical" /\ g.impact = "High")
            /\ HasClause(moderate_gaps, g.clause) <=>
                   (g.priority = "High" /\ g.impact = "Medium")
            /\ HasClause(minor_gaps, g.clause) <=> g.impact = "Low"

\* C20 witness: gaps of exactly 0.5 (priority Medium, impact Low), 0.25
\* (Low, Low) and exactly 1.5 (High, Medium), the first two in minor_gaps
\* and the last in moderate_gaps
C20_Witness ==
    /\ clause_count = 3
    /\ assessed_clauses[1].current_level = 35
    /\ assessed_clauses[1].priority = "Medium"
    /\ assessed_clauses[1].impact = "Low"
    /\ assessed_clauses[2].current_level = 38
    /\ assessed_clauses[2].priority = "Low"
    /\ gap = 6
    /\ LastGapInfo.priority = "High"
    /\ LastGapInfo.impact = "Medium"
    /\ Len(minor_gaps) = 2
    /\ Len(moderate_gaps) = 1

\* C18: in a returned report phase_1 lists the clauses of the first 5
\* records with a critical gap and then of the first 3 with a moderate gap,
\* phase_2 those of all critical and then all moderate records, phase_3
\* those of all critical, all moderate and all minor records; phase_1 has
\* at most 8 entries and phase_3 has every input record once.
C18_RoadmapPhases ==
    Returned =>
        LET rm == report.roadmap_to_level_4
        IN  /\ rm.phase_1 = FirstN(CriticalClauses, 5) \o FirstN(ModerateClauses, 3)
            /\ rm.phase_2 = CriticalClauses \o ModerateClauses
            /\ rm.phase_3 = CriticalClauses \o ModerateClauses \o MinorClauses
            /\ Len(rm.phase_1) <= 8
            /\ Len(rm.phase_3) = Len(assessments)
            /\ \A i \in 1..Len(assessments) :
                   Cardinality({j \in 1..Len(rm.phase_3) :
                                   rm.phase_3[j] = ClauseNum(assessments[i])}) = 1

\* C18 witness: 6 critical, 4 moderate and 2 minor records given in turn:
\* phase_1 has 5 + 3 entries and leaves out the sixth critical and the
\* fourth moderate record, which phase_2 has
C18_Witness ==
    /\ Returned
    /\ Len(CriticalClauses) = 6
    /\ Len(ModerateClauses) = 4
    /\ Len(MinorClauses) = 2
    /\ ClauseNum(assessments[1]) = MinorClauses[1]
    /\ ClauseNum(assessments[2]) = ModerateClauses[1]
    /\ Len(report.roadmap_to_level_4.phase_1) = 8
    /\ report.roadmap_to_level_4.phase_1[6] = ModerateClauses[1]
    /\ Len(report.roadmap_to_level_4.phase_2) = 10
    /\ report.roadmap_to_level_4.phase_2[6] = CriticalClauses[6]
    /\ Len(report.roadmap_to_level_4.phase_3) = 12

\* The clause numbers of the entries of a priority matrix list
RefClauses(refs) == [j \in 1..Len(refs) |-> refs[j].clause]

\* C19: in a returned report quick_wins are the first 5 records with a minor
\* gap, strategic_initiatives the first 5 with a critical gap and
\* foundational_requirements the first 5 with a moderate gap, each in the
\* order of its gap list and as "clause - name" of the record; no list has
\* more than 5 entries.
C19_PriorityMatrix ==
    Returned =>
        LET pm == report.priority_matrix
            Named(refs) ==
                \A j \in 1..Len(refs) :
                    refs[j].clause_name = ClauseName(assessments[PositionOf(refs[j].clause)])
        IN  /\ RefClauses(pm.quick_wins) = FirstN(MinorClauses, 5)
            /\ RefClauses(pm.strategic_initiatives) = FirstN(CriticalClauses, 5)
            /\ RefClauses(pm.foundational_requirements) = FirstN(ModerateClauses, 5)
            /\ Named(pm.quick_wins)
            /\ Named(pm.strategic_initiatives)
            /\ Named(pm.foundational_requirements)
            /\ Len(pm.quick_wins) <= 5
            /\ Len(pm.strategic_initiatives) <= 5
            /\ Len(pm.foundational_requirements) <= 5

\* C19 witness: 6 records of each kind, the moderate ones given first: each
\* list of the matrix has the first 5 of its 6
C19_Witness ==
    /\ Returned
    /\ Len(MinorClauses) = 6
    /\ Len(CriticalClauses) = 6
    /\ Len(ModerateClauses) = 6
    /\ ClauseNum(assessments[1]) = ModerateClauses[1]
    /\ ClauseNum(assessments[7]) = MinorClauses[1]
    /\ RefClauses(report.priority_matrix.quick_wins) = SubSeq(MinorClauses, 1, 5)
    /\ RefClauses(report.priority_matrix.strategic_initiatives) = SubSeq(CriticalClauses, 1, 5)
    /\ RefClauses(report.priority_matrix.foundational_requirements) = SubSeq(ModerateClauses, 1, 5)

\* The gaps of the three gap lists
AllGaps == critical_gaps \o moderate_gaps \o minor_gaps

\* C24: no gap_details holds required_actions, practices_to_implement,
\* missing_elements or target_level_description, so the branches of the
\* recommendation builder that read them are never taken: no action item is
\* made from them, and missing_elements and practices_to_implement of every
\* recommendation are empty lists.
C24_DeadBranches ==
    /\ \A j \in 1..Len(AllGaps) :
           /\ DOMAIN AllGaps[j].gap_details
                  \cap {"required_actions", "practices_to_implement",
                        "missing_elements", "target_level_description"} = {}
           /\ \A key \in {"required_actions", "practices_to_implement",
                           "missing_elements", "target_level_description"} :
                  /\ ~Truthy(AllGaps[j].gap_details, key)
                  /\ GetList(AllGaps[j].gap_details, key) = <<>>
    /\ Returned =>
           \A j \in 1..Len(report.recommendations) :
               /\ report.recommendations[j].missing_elements = <<>>
               /\ report.recommendations[j].practices_to_implement = <<>>
               /\ \A i \in 1..Len(report.recommendations[j].action_items) :
                      report.recommendations[j].action_items[i]
                          \notin {"required_action", "Key practices to implement",
                                  "Target state", "Address missing elements"}

\* C24 witness: a report with a recommendation for a record without a
\* selection, for which all three level tests of the builder pass, and whose
\* gap has unmet practices listed under missing_at_current_level
C24_Witness ==
    /\ Returned
    /\ \E j \in 1..Len(report.recommendations) :
           /\ report.recommendations[j].selected_level = 1
           /\ Len(report.recommendations[j].action_items) = 3
           /\ report.recommendations[j].missing_elements = <<>>
    /\ \E j \in 1..Len(AllGaps) :
           Len(AllGaps[j].gap_details.missing_at_current_level) > 0

----------------------------------------------------------------------------
(* File names.  A string is the sequence of its characters, so that        *)
(* upper(), re.sub, startswith and the substring test `in` are computed on *)
(* characters as the code computes them.                                   *)

LowerCase ==
    <<"a", "b", "c", "d", "e", "f", "g", "h", "i", "j", "k", "l", "m",
      "n", "o", "p", "q", "r", "s", "t", "u", "v", "w", "x", "y", "z">>

UpperCase ==
    <<"A", "B", "C", "D", "E", "F", "G", "H", "I", "J", "K", "L", "M",
      "N", "O", "P", "Q", "R", "S", "T", "U", "V", "W", "X", "Y", "Z">>

DigitChars == <<"0", "1", "2", "3", "4", "5", "6", "7", "8", "9">>

Digits == {DigitChars[i] : i \in 1..Len(DigitChars)}

Letters == {LowerCase[i] : i \in 1..Len(LowerCase)} \cup {UpperCase[i] : i \in 1..Len(UpperCase)}

\* The upper-case letter of every lower-case letter
UpperOf ==
    [c \in Letters \cup Digits \cup {"_", "-", ".", " "} |->
        IF \E i \in 1..Len(LowerCase) : LowerCase[i] = c
        THEN UpperCase[CHOOSE i \in 1..Len(LowerCase) : LowerCase[i] = c]
        ELSE c]

\* c.upper(), for the characters that file names of the model are made of
UpperChar(c) == UpperOf[c]

\* s.upper()
StrUpper(s) == [i \in 1..Len(s) |-> UpperChar(s[i])]

\* The characters of s from position i on are those of t
EqualsAt(s, i, t) ==
    /\ 1 <= i
    /\ i + Len(t) - 1 <= Len(s)
    /\ \A j \in 1..Len(t) : s[i + j - 1] = t[j]

\* The same, ignoring the case of s; t is in upper case
UpperEqualsAt(s, i, t) ==
    /\ 1 <= i
    /\ i + Len(t) - 1 <= Len(s)
    /\ \A j \in 1..Len(t) : UpperChar(s[i + j - 1]) = t[j]

\* needle in hay
Contains(hay, needle) ==
    \/ needle = <<>>
    \/ \E i \in 1..(Len(hay) - Len(needle) + 1) :
           hay[i] = needle[1] /\ EqualsAt(hay, i, needle)

\* needle in hay.upper()
UpperContains(hay, needle) ==
    \/ needle = <<>>
    \/ \E i \in 1..(Len(hay) - Len(needle) + 1) :
           UpperChar(hay[i]) = needle[1] /\ UpperEqualsAt(hay, i, needle)

\* s.startswith(prefix)
StartsWith(s, prefix) == EqualsAt(s, 1, prefix)

\* s.endswith(suffix)
EndsWith(s, suffix) == EqualsAt(s, Len(s) - Len(suffix) + 1, suffix)

\* os.path.splitext(filename)[0] of a name without directories: the name up
\* to its last dot, unless only dots come before that dot
SplitExtBase(filename) ==
    LET dots == {i \in 1..Len(filename) : filename[i] = "."}
        last == CHOOSE i \in dots : \A j \in dots : j <= i
    IN  IF dots # {} /\ (\E j \in 1..(last - 1) : filename[j] # ".")
        THEN SubSeq(filename, 1, last - 1)
        ELSE filename

\* re.sub(r'[^a-zA-Z0-9]', '_', s)
SafeString(s) == [i \in 1..Len(s) |-> IF s[i] \in Letters \cup Digits THEN s[i] ELSE "_"]

\* lines 54-55, 123-124, 136-137, 148-149
SafeName(filename) == SafeString(SplitExtBase(filename))

\* The length of the match of AS9100[Dd]? at position i of s, ignoring case; 0 for none
MatchAS9100(s, i) ==
    IF UpperEqualsAt(s, i, <<"A", "S", "9", "1", "0", "0">>)
    THEN IF i + 6 <= Len(s) /\ UpperChar(s[i + 6]) = "D" THEN 7 ELSE 6
    ELSE 0

\* What follows ISO[_\s]? in the three ISO patterns: \d{5}, 14001 or 9001.
\* Of the characters \s matches, the names of the model hold the space only.
RestMatches(rest, t) ==
    IF rest = "digits" THEN \A j \in 1..Len(t) : t[j] \in Digits
    ELSE IF rest = "14001" THEN t = <<"1", "4", "0", "0", "1">>
    ELSE t = <<"9", "0", "0", "1">>

\* The length of the match of ISO[_\s]? followed by the n characters of rest
\* at position i of s, ignoring case; 0 for none
MatchISO(s, i, n, rest) ==
    IF UpperEqualsAt(s, i, <<"I", "S", "O">>)
    THEN IF /\ i + 3 + n <= Len(s)
            /\ s[i + 3] \in {"_", " "}
            /\ RestMatches(rest, SubSeq(s, i + 4, i + 3 + n))
         THEN 4 + n
         ELSE IF i + 2 + n <= Len(s) /\ RestMatches(rest, SubSeq(s, i + 3, i + 2 + n))
         THEN 3 + n
         ELSE 0
    ELSE 0

\* lines 35-40: the match length of pattern number p at position i
PatternMatch(p, s, i) ==
    IF p = 1 THEN MatchAS9100(s, i)
    ELSE IF p = 2 THEN MatchISO(s, i, 5, "digits")
    ELSE IF p = 3 THEN MatchISO(s, i, 5, "14001")
    ELSE MatchISO(s, i, 4, "9001")

\* The least number of a set of numbers
Least(S) == CHOOSE i \in S : \A j \in S : i <= j

\* .group(1) of the match of pattern p at position i of s
Group(s, i, len) == SubSeq(s, i, i + len - 1)

\* The match at the leftmost of the positions at, <<>> when there is none
LeftmostMatch(p, s, at) ==
    IF at = {} THEN <<>> ELSE Group(s, Least(at), PatternMatch(p, s, Least(at)))

\* re.search(pattern, s, re.IGNORECASE).group(1): the leftmost match, <<>> for none
Search(p, s) == LeftmostMatch(p, s, {i \in 1..Len(s) : PatternMatch(p, s, i) > 0})

\* .replace(' ', '_')
SpacesToUnderscores(s) == [i \in 1..Len(s) |-> IF s[i] = " " THEN "_" ELSE s[i]]

\* lines 41-49: the match of the first of the patterns matching that match
\* base, upper-cased, or the safe base name when no pattern matches
StandardOrSafeName(base, matching) ==
    IF matching # {}
    THEN SpacesToUnderscores(StrUpper(Search(Least(matching), base)))
    ELSE SafeString(base)

\* lines 33-49, for the name without its extension
StandardNameOfBase(base) == StandardOrSafeName(base, {p \in 1..4 : Search(p, base) # <<>>})

\* lines 31-49
extract_standard_name(filename) == StandardNameOfBase(SplitExtBase(filename))

\* strftime("%Y-%m-%d_%H-%M-%S") in second t of the run
Timestamp(t) ==
    <<"2", "0", "2", "6", "-", "0", "1", "-", "0", "1", "_",
      "0", "0", "-", "0", "0", "-", "0", DigitChars[t + 1]>>

DotJson == <<".", "j", "s", "o", "n">>

ComplianceReportMark ==
    <<"_", "c", "o", "m", "p", "l", "i", "a", "n", "c", "e", "_", "r", "e", "p", "o", "r", "t">>

\* line 125: f"{safe_name}_{timestamp}.json"
AssessmentFileName(filename, t) == SafeName(filename) \o <<"_">> \o Timestamp(t) \o DotJson

\* line 138: f"{safe_name}_compliance_report_{timestamp}.json"
ReportFileName(filename, t) ==
    SafeName(filename) \o ComplianceReportMark \o <<"_">> \o Timestamp(t) \o DotJson

\* The content of a file: a JSON list of records, a compliance report, or
\* text that json.load rejects (what a write that stopped half-way leaves)
ListContent(items) == [k |-> "list", items |-> items]

ReportContent(r) == [k |-> "report", report |-> r]

Unreadable == [k |-> "unreadable"]

\* What a lookup gives when nothing matches: None
NoFile == [name |-> <<>>, mtime |-> 0, content |-> [k |-> "none"]]

\* matching_files.sort(key=mtime, reverse=True)[0], None for an empty list
MostRecent(matching) ==
    IF matching = {} THEN NoFile
    ELSE CHOOSE f \in matching : \A g \in matching : g.mtime <= f.mtime

\* line 75: the file name matches the standard name or starts with the safe
\* name and an underscore
NameMatches(name, safe_name, standard_name) ==
    \/ standard_name # <<>> /\ UpperContains(name, standard_name)
    \/ StartsWith(name, safe_name \o <<"_">>)

\* The most recent .json file with a matching name, compliance reports included
FileNamed(fs, safe_name, standard_name) ==
    MostRecent({f \in fs :
        /\ EndsWith(f.name, DotJson)
        /\ NameMatches(f.name, safe_name, standard_name)})

\* find_existing_assessment without the test that leaves compliance reports out
find_existing_file(fs, filename) ==
    FileNamed(fs, SafeName(filename), extract_standard_name(filename))

\* lines 62-88: the most recent .json file with a matching name that is no
\* compliance report
AssessmentNamed(fs, safe_name, standard_name) ==
    MostRecent({f \in fs :
        /\ EndsWith(f.name, DotJson)
        /\ ~Contains(f.name, ComplianceReportMark)
        /\ NameMatches(f.name, safe_name, standard_name)})

\* lines 52-88, on the files fs of the folder
find_existing_assessment(fs, filename) ==
    AssessmentNamed(fs, SafeName(filename), extract_standard_name(filename))

\* lines 153-165: the most recent compliance report with a matching name
ReportNamed(fs, safe_name, standard_name) ==
    MostRecent({f \in fs :
        /\ EndsWith(f.name, DotJson)
        /\ Contains(f.name, ComplianceReportMark)
        /\ \/ standard_name # <<>> /\ UpperContains(f.name, standard_name)
           \/ Contains(f.name, safe_name)})

\* lines 146-165, on the files fs of the folder
find_existing_compliance_report(fs, filename) ==
    ReportNamed(fs, SafeName(filename), extract_standard_name(filename))

----------------------------------------------------------------------------
(* The body of a /save_selections request and what lines 1252-1292 do with *)
(* it to the list loaded from the file.                                    *)

\* A practice entry with its score, a JSON number
ScoredPractice(t, s) == [k |-> "dict", text |-> t, score |-> s]

\* A key of a JSON object that int() reads ("0", "-1", "7") or rejects ("x")
IntKey(n) == [k |-> "int", v |-> n]

BadKey == [k |-> "bad", v |-> 0]

\* clause_selection['practices']: practice index -> checked, in the order of
\* the JSON object; a missing key; or a value that is no object
Choices(items) == [k |-> "dict", items |-> items]

NoChoices == [k |-> "absent", items |-> <<>>]

NotDictChoices == [k |-> "notdict", items |-> <<>>]

Choice(key, is_selected) == [key |-> key, is_selected |-> is_selected]

\* One clause_selection: an object with maturity_level and practices, either
\* of which may be missing, or JSON null
Selection(level, practices) == [k |-> "dict", maturity_level |-> level, practices |-> practices]

NullSelection == [k |-> "null", maturity_level |-> Absent, practices |-> NoChoices]

Entry(key, sel) == [key |-> key, sel |-> sel]

\* ml['level'] == maturity_level in Python: numbers compare by value, a
\* string or None equals no number
LevelEquals(level, maturity_level) ==
    /\ level.k \in {"num", "bool"}
    /\ maturity_level.k \in {"num", "bool"}
    /\ level.v = maturity_level.v

\* seq[n] for n < len(seq): the position counted from 1, or 0 for the
\* IndexError of a negative n below -len(seq)
PyIndex(n, len) ==
    IF n >= 0 THEN n + 1
    ELSE IF len + n >= 0 THEN len + n + 1
    ELSE 0

\* Percentage as the share total / max, not multiplied by 100
PercentageAsShare(total_score, max_score) ==
    IF max_score > 0
    THEN IF total_score % max_score = 0
         THEN Num(total_score \div max_score)
         ELSE [k |-> "ratio", r |-> Reduced(<<total_score, max_score>>)]
    ELSE Num(0)

\* line 1290
Percentage(total_score, max_score) ==
    IF max_score > 0
    THEN IF (total_score * 100) % max_score = 0
         THEN Num((total_score * 100) \div max_score)
         ELSE [k |-> "ratio", r |-> Reduced(<<total_score * 100, max_score>>)]
    ELSE Num(0)

\* lines 1278-1284 from entry number j of selected_practices on; acc holds
\* total_score and max_score so far, and raised when int(), the index or
\* practice['score'] raised
RECURSIVE SumPractices(_, _, _, _)
SumPractices(ps, items, j, acc) ==
    IF j > Len(items) \/ acc.raised THEN acc
    ELSE LET key == items[j].key
             pos == PyIndex(key.v, Len(ps))
         IN  IF key.k = "bad" THEN [acc EXCEPT !.raised = TRUE]
             ELSE IF ~(key.v < Len(ps)) THEN SumPractices(ps, items, j + 1, acc)
             ELSE IF pos = 0 \/ ps[pos].k # "dict" THEN [acc EXCEPT !.raised = TRUE]
             ELSE SumPractices(ps, items, j + 1,
                      [raised |-> FALSE,
                       max |-> acc.max + ps[pos].score,
                       total |-> IF items[j].is_selected
                                 THEN acc.total + ps[pos].score ELSE acc.total])

\* lines 1272-1291: the first entry of maturity_levels, from entry j on, whose
\* level equals maturity_level gives the record its calculated_score; with no
\* such entry the record is left as it is.  raised: an entry that is no dict
\* or has no level, practices that are no object, or the sum raised.
RECURSIVE ScoreFromLevel(_, _, _, _)
ScoreFromLevel(clause, mls, j, sel) ==
    IF j > Len(mls) THEN [raised |-> FALSE, clause |-> clause]
    ELSE IF mls[j].k # "dict" \/ mls[j].level.k = "absent"
    THEN [raised |-> TRUE, clause |-> clause]
    ELSE IF ~LevelEquals(mls[j].level, sel.maturity_level)
    THEN ScoreFromLevel(clause, mls, j + 1, sel)
    ELSE IF sel.practices.k # "dict" \/ mls[j].practices.k # "list"
    THEN [raised |-> TRUE, clause |-> clause]
    ELSE LET sum == SumPractices(mls[j].practices.items, sel.practices.items, 1,
                                 [raised |-> FALSE, total |-> 0, max |-> 0])
         IN  IF sum.raised THEN [raised |-> TRUE, clause |-> clause]
             ELSE [raised |-> FALSE,
                   clause |-> [clause EXCEPT !.calculated_score =
                                  ScoreDict(Num(sum.total), Num(sum.max),
                                            Percentage(sum.total, sum.max))]]

\* lines 1259-1264: 'maturity_level' in clause_selection stores its value,
\* whatever it is, as selected_maturity_level
LevelStored(clause, sel) ==
    IF sel.maturity_level.k # "absent"
    THEN [clause EXCEPT !.selected_maturity_level = sel.maturity_level]
    ELSE clause

\* lines 1256-1292 for one record and its clause_selection
ApplySelection(clause, sel) ==
    IF sel.k # "dict" \/ (clause.k # "dict" /\ sel.maturity_level.k # "absent")
    THEN [raised |-> TRUE, clause |-> clause]
    ELSE LET with_level == LevelStored(clause, sel)
         IN  IF sel.practices.k # "absent" /\ sel.maturity_level.k # "absent"
             THEN IF with_level.maturity_levels.k = "null"
                  THEN [raised |-> TRUE, clause |-> with_level]
                  ELSE ScoreFromLevel(with_level, MaturityItems(with_level), 1, sel)
             ELSE [raised |-> FALSE, clause |-> with_level]

\* line 1255: clause_idx < len(assessments)
IndexBelowLength(n, len) == n < len

\* lines 1253-1292 from entry number j of selections on: the list in memory
\* after the loop, and raised when an exception left it
RECURSIVE ApplySelections(_, _, _)
ApplySelections(list, items, j) ==
    IF j > Len(items) THEN [raised |-> FALSE, list |-> list]
    ELSE LET key == items[j].key
             pos == PyIndex(key.v, Len(list))
         IN  IF key.k = "bad" THEN [raised |-> TRUE, list |-> list]
             ELSE IF ~IndexBelowLength(key.v, Len(list)) THEN ApplySelections(list, items, j + 1)
             ELSE IF pos = 0 THEN [raised |-> TRUE, list |-> list]
             ELSE LET one == ApplySelection(list[pos], items[j].sel)
                      after == [list EXCEPT ![pos] = one.clause]
                  IN  IF one.raised THEN [raised |-> TRUE, list |-> after]
                      ELSE ApplySelections(after, items, j + 1)

----------------------------------------------------------------------------
(* The folder of saved files and the three route handlers.  A file is      *)
(* [name, mtime, content, document]: document is the uploaded filename the *)
(* file was saved for, which the folder itself does not record.            *)

\* The largest mtime in the folder so far; every write is later
NextMtime(fs) ==
    IF fs = {} THEN 1
    ELSE 1 + (CHOOSE m \in {f.mtime : f \in fs} : \A g \in fs : g.mtime <= m)

\* What load_assessment gives: a list, or None
Loaded(items) == [k |-> "list", items |-> items]

LoadedNone == [k |-> "None", items |-> <<>>]

\* `not assessments`
Falsy(loaded) == loaded.k = "None" \/ loaded.items = <<>>

\* A compliance report read as an assessment record: a dict with none of the
\* keys of a record
ReportAsRecord == Rec(NoClause, Absent, NoScore, NoLevels)

\* lines 91-117: a list is returned as it is, a dict without the key
\* assessments (a compliance report is one) as a list of that dict, and a
\* file that json.load rejects as None
load_assessment(f) ==
    IF f.content.k = "list" THEN Loaded(f.content.items)
    ELSE IF f.content.k = "report" THEN Loaded(<<ReportAsRecord>>)
    ELSE LoadedNone

\* open(path, 'w') and json.dump on a file of the folder: the file keeps its
\* name and gets the content and a new mtime
Written(fs, path, content) ==
    (fs \ {path}) \cup {[path EXCEPT !.content = content, !.mtime = NextMtime(fs)]}

\* open(save_path, 'w') and json.dump: a file of that name is replaced
Saved(fs, name, content, filename) ==
    {f \in fs : f.name # name}
        \cup {[name |-> name, mtime |-> NextMtime(fs), content |-> content,
               document |-> filename]}

\* lines 120-130, in second t
save_locally(fs, filename, t, data) ==
    Saved(fs, AssessmentFileName(filename, t), ListContent(data), filename)

\* lines 133-143, in second t
save_compliance_report(fs, filename, t, report_data) ==
    Saved(fs, ReportFileName(filename, t), ReportContent(report_data), filename)

\* What a handler answers and leaves in the folder; generated tells whether
\* the section-by-section generation ran
Answer(route, status, body, fs, generated) ==
    [route |-> route, status |-> status, body |-> body, files |-> fs, generated |-> generated]

\* The save_selections handler writing what the loop had changed when an
\* exception stopped it
StoredPartial(fs, path, list) == Written(fs, path, ListContent(list))

\* lines 1304-1308: the except branch answers 500 and writes nothing; what
\* the loop changed was in memory only
StoredOnError(fs, path, list) == fs

\* lines 1294-1308: after the loop gave applied, the list and whether an
\* exception stopped it
SaveUpdated(fs, path, applied) ==
    IF applied.raised
    THEN Answer("save_selections", 500, <<>>, StoredOnError(fs, path, applied.list), FALSE)
    ELSE Answer("save_selections", 200, applied.list,
                Written(fs, path, ListContent(applied.list)), FALSE)

\* lines 1248-1308: after load_assessment gave loaded
SaveLoaded(fs, path, loaded, selections) ==
    IF Falsy(loaded) THEN Answer("save_selections", 500, <<>>, fs, FALSE)
    ELSE IF selections.k # "dict"
    THEN Answer("save_selections", 500, <<>>, StoredOnError(fs, path, loaded.items), FALSE)
    ELSE SaveUpdated(fs, path, ApplySelections(loaded.items, selections.items, 1))

\* lines 1244-1308: after the lookup gave path
SaveFound(fs, path, selections) ==
    IF path = NoFile THEN Answer("save_selections", 404, <<>>, fs, FALSE)
    ELSE SaveLoaded(fs, path, load_assessment(path), selections)

\* lines 1231-1308.  filename <<>> is a missing or empty filename;
\* selections is [k, items] with k = "dict", or "notdict" for a value
\* without .items()
save_selections(fs, filename, selections) ==
    IF filename = <<>> THEN Answer("save_selections", 400, <<>>, fs, FALSE)
    ELSE SaveFound(fs, find_existing_assessment(fs, filename), selections)

\* What reading the PDF and generating gives: text under 50 characters, no
\* section with records, records that lines 1118-1120 cannot read (the
\* exception of a record that is no dict), or the records of all sections
ShortText == [k |-> "short_text", items |-> <<>>]

NothingGenerated == [k |-> "nothing", items |-> <<>>]

GeneratedUnreadable == [k |-> "raised", items |-> <<NotDictRec>>]

Generated(items) == [k |-> "records", items |-> items]

\* analyze generating anew on every upload
NeverCached(path, loaded) == FALSE

\* lines 1044-1048: the stored file is found and load_assessment gave
\* something truthy
Cached(path, loaded) == path # NoFile /\ ~Falsy(loaded)

\* lines 1044-1143: after the lookup gave path and load_assessment loaded
AnalyzeLoaded(fs, filename, t, outcome, path, loaded) ==
    IF Cached(path, loaded) THEN Answer("analyze", 200, loaded.items, fs, FALSE)
    ELSE IF outcome.k = "short_text" THEN Answer("analyze", 400, <<>>, fs, FALSE)
    ELSE IF outcome.k = "nothing" THEN Answer("analyze", 500, <<>>, fs, TRUE)
    ELSE IF outcome.k = "raised" THEN Answer("analyze", 500, <<>>, fs, TRUE)
    ELSE Answer("analyze", 200, outcome.items,
                save_locally(fs, filename, t, outcome.items), TRUE)

\* lines 1042-1143: after the lookup gave path
AnalyzeFound(fs, filename, t, outcome, path) ==
    AnalyzeLoaded(fs, filename, t, outcome, path, load_assessment(path))

\* lines 1028-1143, in second t
analyze(fs, filename, t, outcome) ==
    IF filename = <<>> THEN Answer("analyze", 400, <<>>, fs, FALSE)
    ELSE AnalyzeFound(fs, filename, t, outcome, find_existing_assessment(fs, filename))

\* lines 183-386 over the whole list, from record j on: the totals and lists
\* after the loop, raised when a record made the loop raise
RECURSIVE LoopFrom(_, _, _)
LoopFrom(list, j, acc) ==
    IF j > Len(list) \/ acc.raised THEN acc
    ELSE LET a   == list[j]
             cl  == CurrentLevel(a)
             sc  == CoercedScore(a)
             eff == EffectiveLevel(cl, sc.percentage)
             g   == Gap(eff)
             gap_info == GapInfo(a, cl, sc, eff, g)
         IN  IF Raises(a) THEN [acc EXCEPT !.raised = TRUE]
             ELSE LoopFrom(list, j + 1,
                      [raised |-> FALSE,
                       total_weighted_score |-> AddWeighted(acc.total_weighted_score, sc),
                       total_max_score |-> AddMax(acc.total_max_score, sc),
                       total_level_score |-> AddLevel(acc.total_level_score, cl, eff),
                       clause_count |-> acc.clause_count + 1,
                       assessed_clauses |-> Append(acc.assessed_clauses, gap_info),
                       critical_gaps |-> AppendGap(acc.critical_gaps, "critical", g, gap_info),
                       moderate_gaps |-> AppendGap(acc.moderate_gaps, "moderate", g, gap_info),
                       minor_gaps |-> AppendGap(acc.minor_gaps, "minor", g, gap_info)])

\* lines 174-181
LoopStart ==
    [raised |-> FALSE, total_weighted_score |-> 0, total_max_score |-> 0,
     total_level_score |-> 0, clause_count |-> 0, assessed_clauses |-> <<>>,
     critical_gaps |-> <<>>, moderate_gaps |-> <<>>, minor_gaps |-> <<>>]

\* A value that `> 0` and the format specs .1f and .2f accept: a number, or
\* the default 0 of a missing key
Formattable(f) == f.k \in {"num", "absent", "ratio", "float", "bool"}

\* lines 1170-1189: the scan of the loaded records before the report raises
\* on a record without .get(), and on a score dict that holds something
\* when its max cannot be compared with 0 or, with max > 0, its percentage
\* or total cannot be formatted
ScanRaises(list) ==
    \E j \in 1..Len(list) :
        \/ list[j].k # "dict"
        \/ LET cs == list[j].calculated_score
           IN  /\ cs.k = "dict"
               /\ ~(cs.total.k = "absent" /\ cs.max.k = "absent" /\ cs.percentage.k = "absent")
               /\ \/ ~Formattable(cs.max)
                  \/ /\ cs.max.k = "num"
                     /\ cs.max.v > 0
                     /\ ~(Formattable(cs.percentage) /\ Formattable(cs.total))

\* lines 388-397: the three rounded numbers of the report, each one of the
\* values float rounding can give
Roundings(memo, acc) ==
    IF acc.raised \/ acc.clause_count = 0 THEN {<<10, 100, 0>>}
    ELSE LET avg_level == AvgLevel(acc.total_level_score, acc.clause_count)
             overall_percentage ==
                 OverallPercentage(acc.total_weighted_score, acc.total_max_score)
             combined_score == CombinedScore(avg_level, overall_percentage)
         IN  FloatResult(memo, "div", avg_level, 10, RoundQuotient(avg_level, 10))
             \X FloatResult(memo, "div", avg_level, 100, RoundQuotient(avg_level, 100))
             \X FloatResult(memo, "mix", combined_score, 10, RoundFloat(combined_score, 10))

\* What the roundings r add to the roundings made so far
Rounded(memo, acc, r) ==
    IF acc.raised \/ acc.clause_count = 0 THEN memo
    ELSE LET avg_level == AvgLevel(acc.total_level_score, acc.clause_count)
             overall_percentage ==
                 OverallPercentage(acc.total_weighted_score, acc.total_max_score)
             combined_score == CombinedScore(avg_level, overall_percentage)
         IN  memo \cup
                 { [op |-> "div", x |-> avg_level, scale |-> 10, r |-> r[1]],
                   [op |-> "div", x |-> avg_level, scale |-> 100, r |-> r[2]],
                   [op |-> "mix", x |-> combined_score, scale |-> 10, r |-> r[3]] }

\* lines 533-548 for the totals acc and the rounded numbers r
ReportOfLoop(acc, r) ==
    Report(r[1], r[2], r[3], acc.clause_count, acc.assessed_clauses,
           acc.critical_gaps, acc.moderate_gaps, acc.minor_gaps)

\* lines 1218-1228: the report is saved and returned
ReportSaved(fs, filename, t, compliance_report) ==
    Answer("generate_compliance_report", 200, compliance_report,
           save_compliance_report(fs, filename, t, compliance_report), FALSE)

\* lines 1170-1228: after load_assessment gave the list, acc being what the
\* loop of generate_compliance_report makes of it
ReportScored(fs, filename, t, r, list, acc) ==
    IF ScanRaises(list) \/ acc.raised
    THEN Answer("generate_compliance_report", 500, <<>>, fs, FALSE)
    ELSE ReportSaved(fs, filename, t, ReportOfLoop(acc, r))

\* lines 1163-1228: after load_assessment gave loaded
ReportLoaded(fs, filename, t, r, loaded) ==
    IF Falsy(loaded) THEN Answer("generate_compliance_report", 500, <<>>, fs, FALSE)
    ELSE ReportScored(fs, filename, t, r, loaded.items, LoopFrom(loaded.items, 1, LoopStart))

\* lines 1158-1228: after the lookup gave path
ReportFound(fs, filename, t, r, path) ==
    IF path = NoFile THEN Answer("generate_compliance_report", 404, <<>>, fs, FALSE)
    ELSE ReportLoaded(fs, filename, t, r, load_assessment(path))

\* lines 1147-1228, in second t, the report's numbers rounded to r
generate_compliance_report_route(fs, filename, t, r) ==
    IF filename = <<>> THEN Answer("generate_compliance_report", 400, <<>>, fs, FALSE)
    ELSE ReportFound(fs, filename, t, r, find_existing_assessment(fs, filename))

----------------------------------------------------------------------------
(* The requests the model makes *)

\* Requests to /save_selections on one stored assessment
MaxSaves == 2

\* Requests to the three routes on one folder
MaxRequests == 3

\* The last second of the run; a save falls into the second of the save
\* before it or a later one
MaxTime == 1

\* Uploaded documents: a.pdf, a_b.pdf, AS9100.pdf and as9100d-2.pdf
DocA == <<"a", ".", "p", "d", "f">>

DocAB == <<"a", "_", "b", ".", "p", "d", "f">>

DocStd == <<"A", "S", "9", "1", "0", "0", ".", "p", "d", "f">>

DocStdRev == <<"a", "s", "9", "1", "0", "0", "d", "-", "2", ".", "p", "d", "f">>

Docs == {DocA, DocAB, DocStd, DocStdRev}

\* A word that tells the records generated for one document from those of another
DocTitle(filename) ==
    CASE filename = DocA -> "A"
      [] filename = DocAB -> "AB"
      [] filename = DocStd -> "Std"
      [] OTHER -> "StdRev"

\* Two practices with scores in [0, 1]
TwoPractices(s1, s2) == PracticeList(<<ScoredPractice("pa", s1), ScoredPractice("pb", s2)>>)

\* What generation gives for a document: a record with the four levels and
\* one in which the generator left out level 3; no selection, no score
GeneratedFor(filename) ==
    << Rec(Clause(<<"4.1", DocTitle(filename)>>), Absent, NoScore,
           LevelList(<< Level(Num(1), "d1", TwoPractices(1, 1)),
                        Level(Num(2), "d2", TwoPractices(1, 1)),
                        Level(Num(3), "d3", TwoPractices(1, 0)),
                        Level(Num(4), "d4", TwoPractices(0, 0)) >>)),
       Rec(Clause(<<"4.2", DocTitle(filename)>>), Absent, NoScore,
           LevelList(<< Level(Num(1), "d1", TwoPractices(1, 1)),
                        Level(Num(2), "d2", TwoPractices(1, 1)),
                        Level(Num(4), "d4", TwoPractices(1, 1)) >>)) >>

GenerationOutcomes(filename) ==
    {ShortText, NothingGenerated, GeneratedUnreadable, Generated(GeneratedFor(filename))}

\* maturity_level of a clause_selection: missing, null (what the page sends
\* for a clause without a choice), a level, a number that is no level, a string
SentLevels == {Absent, Null, Num(2), Num(3), Num(7), NumStr(3)}

\* practices of a clause_selection
SentPractices ==
    { NoChoices,
      Choices(<<>>),
      Choices(<<Choice(IntKey(0), TRUE), Choice(IntKey(1), FALSE)>>),
      Choices(<<Choice(IntKey(0), TRUE), Choice(IntKey(1), TRUE)>>),
      Choices(<<Choice(IntKey(0), FALSE), Choice(IntKey(1), FALSE)>>),
      Choices(<<Choice(IntKey(-1), TRUE), Choice(IntKey(5), TRUE)>>),
      Choices(<<Choice(IntKey(0), TRUE), Choice(IntKey(1), FALSE), Choice(IntKey(-2), FALSE)>>),
      Choices(<<Choice(IntKey(0), TRUE), Choice(BadKey, TRUE)>>),
      Choices(<<Choice(IntKey(-3), TRUE)>>),
      NotDictChoices }

\* A clause_selection as the page sends it for a chosen level with both
\* practices ticked, and one that names a level only
Ticked(l) ==
    Selection(Num(l), Choices(<<Choice(IntKey(0), TRUE), Choice(IntKey(1), TRUE)>>))

LevelOnly(l) == Selection(Num(l), NoChoices)

\* selections: an object of clause index -> clause_selection, in the order
\* of the JSON object, or a value that is no object
SelectionsOf(items) == [k |-> "dict", items |-> items]

NotDictSelections == [k |-> "notdict", items |-> <<>>]

\* The bodies sent for the stored assessment: every level with every
\* practices on record 0; keys 1, -1 (the last record), 2 (beyond the list),
\* -3 (IndexError) and "x"; two selections of which the second one raises
SelectionPool ==
    {SelectionsOf(<<Entry(IntKey(0), Selection(l, p))>>) : l \in SentLevels, p \in SentPractices}
    \cup {SelectionsOf(<<Entry(k, s)>>) :
              k \in {IntKey(1), IntKey(-1), IntKey(2), IntKey(-3), BadKey},
              s \in {Ticked(3), LevelOnly(2)}}
    \cup {SelectionsOf(<<Entry(IntKey(0), Ticked(2)), e>>) :
              e \in {Entry(IntKey(1), Ticked(4)), Entry(IntKey(1), NullSelection),
                     Entry(BadKey, Ticked(2)), Entry(IntKey(-3), Ticked(2)),
                     Entry(IntKey(1), Selection(Num(2), NotDictChoices))}}
    \cup {SelectionsOf(<<>>), NotDictSelections}

\* The bodies sent in a run over several documents
FewSelections ==
    {SelectionsOf(<<Entry(IntKey(0), Ticked(3))>>),
     SelectionsOf(<<Entry(IntKey(1), Selection(Num(2),
                        Choices(<<Choice(IntKey(0), TRUE), Choice(IntKey(1), FALSE)>>)))>>)}

\* A file saved for a document in second t
StoredAssessment(filename, t, m, content) ==
    [name |-> AssessmentFileName(filename, t), mtime |-> m, content |-> content,
     document |-> filename]

----------------------------------------------------------------------------
(* The server as a state machine: one action per request *)

\* The variables of generate_compliance_report, which the handlers call as a
\* function
scorer_locals ==
    <<assessments, pc, total_weighted_score, total_max_score, total_level_score,
      clause_count, critical_gaps, moderate_gaps, minor_gaps, assessed_clauses,
      current_level, score_percentage, effective_level, gap, report, calls, previous>>

\* Nothing was requested yet
FolderStart ==
    /\ assessments = <<>>
    /\ FirstCall
    /\ now = 0
    /\ requests = 0
    /\ response = NoResponse
    /\ generation_runs = 0

\* The requests of these runs are handled one after the other
ServerStart == FolderStart /\ threads = <<>>

\* The folder holds the assessment generated for a.pdf, or a file for a.pdf
\* that a stopped write left unreadable
InitSelections ==
    /\ ServerStart
    /\ files \in {{StoredAssessment(DocA, 0, 1, ListContent(GeneratedFor(DocA)))},
                  {StoredAssessment(DocA, 0, 1, Unreadable)}}

\* The folder is empty, or holds a file for a.pdf that a stopped write left
\* unreadable
InitServer ==
    /\ ServerStart
    /\ files \in {{}, {StoredAssessment(DocA, 0, 1, Unreadable)}}

\* The seconds a save at this point of the run can fall into
Seconds == {t \in {now, now + 1} : t <= MaxTime}

\* The answer is sent and the folder is as the handler left it
Answered(filename, ans, t) ==
    /\ files' = ans.files
    /\ response' = [route |-> ans.route, document |-> filename,
                    status |-> ans.status, body |-> ans.body]
    /\ generation_runs' = IF ans.generated THEN generation_runs + 1 ELSE generation_runs
    /\ now' = IF ans.files # files THEN t ELSE now
    /\ requests' = requests + 1

\* POST /save_selections
SaveSelections(filename, selections) ==
    /\ Answered(filename, save_selections(files, filename, selections), now)
    /\ UNCHANGED <<scorer_locals, float_results, threads>>

\* POST /analyze
Analyze(filename, outcome) ==
    /\ \E t \in Seconds : Answered(filename, analyze(files, filename, t, outcome), t)
    /\ UNCHANGED <<scorer_locals, float_results, threads>>

\* The answer ans to a report request is sent; the roundings r of the
\* totals acc are made when the report was generated
ReportAnswered(filename, acc, t, r, ans) ==
    /\ Answered(filename, ans, t)
    /\ float_results' = IF ans.status = 200 THEN Rounded(float_results, acc, r)
                                            ELSE float_results

\* A report request in one of the seconds it can fall into, the numbers of
\* the report rounded in one of the ways float rounding can give for the
\* totals acc of the stored records
ReportRequested(filename, acc) ==
    \E t \in Seconds : \E r \in Roundings(float_results, acc) :
        ReportAnswered(filename, acc, t, r,
                       generate_compliance_report_route(files, filename, t, r))

\* POST /generate_compliance_report
GenerateComplianceReport(filename) ==
    /\ ReportRequested(filename,
           LoopFrom(load_assessment(find_existing_assessment(files, filename)).items,
                    1, LoopStart))
    /\ UNCHANGED <<scorer_locals, threads>>

NextSelections ==
    /\ requests < MaxSaves
    /\ \/ \E s \in SelectionPool : SaveSelections(DocA, s)
       \/ \E f \in {<<>>, DocAB} : SaveSelections(f, SelectionsOf(<<Entry(IntKey(0), Ticked(3))>>))

SpecSelections == InitSelections /\ [][NextSelections]_vars

NextServer ==
    /\ requests < MaxRequests
    /\ \/ \E f \in Docs \cup {<<>>} : \E o \in GenerationOutcomes(f) : Analyze(f, o)
       \/ \E f \in Docs : \E s \in FewSelections : SaveSelections(f, s)
       \/ \E f \in Docs \cup {<<>>} : GenerateComplianceReport(f)

SpecServer == InitServer /\ [][NextServer]_vars

----------------------------------------------------------------------------
(* /save_selections handled by two threads at once.  app.run starts the    *)
(* development server, which handles every request in a thread of its own, *)
(* and the handler takes no lock: between any two of its file operations   *)
(* the other thread can run.                                               *)

\* The two requests in flight
Handlers == {1, 2}

\* What the two requests send for a.pdf: the first one a selection for
\* record 0, the second one a selection for record 1
SentBy(i) ==
    IF i = 1
    THEN {SelectionsOf(<<Entry(IntKey(0), Ticked(3))>>),
          SelectionsOf(<<Entry(IntKey(0), LevelOnly(2))>>)}
    ELSE {SelectionsOf(<<Entry(IntKey(1), Ticked(2))>>),
          SelectionsOf(<<Entry(IntKey(1), Ticked(4))>>)}

\* A request whose handler has not started: its body, the path and the list
\* the handler holds, whether the file it has open was written by the other
\* thread since it opened it, and its answer
Arrived(selections) ==
    [pc |-> "start", selections |-> selections, path |-> <<>>, assessments |-> <<>>,
     overwritten |-> FALSE, status |-> 0]

\* The folder holds the assessment generated for a.pdf and both requests
\* have arrived
InitThreads ==
    /\ FolderStart
    /\ files = {StoredAssessment(DocA, 0, 1, ListContent(GeneratedFor(DocA)))}
    /\ \E s1 \in SentBy(1) : \E s2 \in SentBy(2) :
           threads = [i \in Handlers |-> IF i = 1 THEN Arrived(s1) ELSE Arrived(s2)]

\* The file of the folder that has the name path
FileAt(fs, path) == CHOOSE f \in fs : f.name = path

\* The handler of thread i returns with status
Returns(i, status) ==
    /\ threads' = [threads EXCEPT ![i].pc = "done", ![i].status = status]
    /\ requests' = requests + 1
    /\ response' = [route |-> "save_selections", document |-> DocA, status |-> status,
                    body |-> IF status = 200 THEN threads[i].assessments ELSE <<>>]

\* lines 1243-1245: the lookup
FindAssessment(i) ==
    /\ threads[i].pc = "start"
    /\ LET path == find_existing_assessment(files, DocA)
       IN  IF path = NoFile
           THEN Returns(i, 404)
           ELSE /\ threads' = [threads EXCEPT ![i].pc = "found", ![i].path = path.name]
                /\ UNCHANGED <<requests, response>>
    /\ UNCHANGED <<files, now, generation_runs, scorer_locals, float_results>>

\* lines 1247-1292: the file is read as it is now and the selections are
\* applied to the list in memory
LoadAndUpdate(i) ==
    /\ threads[i].pc = "found"
    /\ LET loaded == load_assessment(FileAt(files, threads[i].path))
           applied == ApplySelections(loaded.items, threads[i].selections.items, 1)
       IN  IF Falsy(loaded) \/ threads[i].selections.k # "dict" \/ applied.raised
           THEN Returns(i, 500)
           ELSE /\ threads' = [threads EXCEPT ![i].pc = "updated",
                                              ![i].assessments = applied.list]
                /\ UNCHANGED <<requests, response>>
    /\ UNCHANGED <<files, now, generation_runs, scorer_locals, float_results>>

\* line 1295: open(path, 'w') empties the file
OpenForWriting(i) ==
    /\ threads[i].pc = "updated"
    /\ files' = Written(files, FileAt(files, threads[i].path), Unreadable)
    /\ threads' = [threads EXCEPT ![i].pc = "open", ![i].overwritten = FALSE]
    /\ UNCHANGED <<now, requests, response, generation_runs, scorer_locals, float_results>>

\* What the file holds after json.dump of list through a handle opened
\* before the other thread wrote: the text of list from the start of the
\* file, followed by what is left of the other text when that one is longer
DumpedOver(list) == {ListContent(list), Unreadable}

\* lines 1296-1302: json.dump, the file is closed and the answer is sent
DumpAndReturn(i) ==
    /\ threads[i].pc = "open"
    /\ \E content \in IF threads[i].overwritten
                      THEN DumpedOver(threads[i].assessments)
                      ELSE {ListContent(threads[i].assessments)} :
           files' = Written(files, FileAt(files, threads[i].path), content)
    /\ threads' = [j \in Handlers |->
                      IF j = i THEN [threads[i] EXCEPT !.pc = "done", !.status = 200]
                      ELSE IF threads[j].pc = "open"
                      THEN [threads[j] EXCEPT !.overwritten = TRUE]
                      ELSE threads[j]]
    /\ requests' = requests + 1
    /\ response' = [route |-> "save_selections", document |-> DocA, status |-> 200,
                    body |-> threads[i].assessments]
    /\ UNCHANGED <<now, generation_runs, scorer_locals, float_results>>

NextThreads ==
    \E i \in Handlers :
        \/ FindAssessment(i)
        \/ LoadAndUpdate(i)
        \/ OpenForWriting(i)
        \/ DumpAndReturn(i)

SpecThreads == InitThreads /\ [][NextThreads]_vars

----------------------------------------------------------------------------
(* Claims about the stored assessment and /save_selections *)

\* The records of a stored file; none for a report or an unreadable file
RecordsOf(f) == IF f.content.k = "list" THEN f.content.items ELSE <<>>

\* The stored assessment of a.pdf
StoredOfA == find_existing_assessment(files, DocA)

\* C21: in every stored record selected_maturity_level, if present, is one
\* of 1, 2, 3, 4 (null, which line 1175 reads as "not selected", is taken as
\* not present).
C21_SelectedLevelInRange ==
    \A f \in files : \A i \in 1..Len(RecordsOf(f)) :
        LET level == RecordsOf(f)[i].selected_maturity_level
        IN  \/ level.k \in {"absent", "null"}
            \/ level.k = "num" /\ level.v \in 1..4

\* The value of a stored percentage as a fraction
PercentageValue(p) == IF p.k = "ratio" THEN p.r ELSE <<p.v, 1>>

\* C22: every stored calculated_score has percentage = total / max * 100,
\* and percentage = 0 when max = 0; with practice scores in [0, 1] (all the
\* model's are) 0 <= total <= max and 0 <= percentage <= 100.
C22_ScoreConsistent ==
    \A f \in files : \A i \in 1..Len(RecordsOf(f)) :
        LET cs == RecordsOf(f)[i].calculated_score
            p == PercentageValue(cs.percentage)
        IN  cs.k # "absent" =>
                /\ cs.k = "dict"
                /\ cs.total.k = "num" /\ cs.max.k = "num"
                /\ cs.percentage.k \in {"num", "ratio"}
                /\ cs.max.v = 0 => cs.percentage = Num(0)
                /\ cs.max.v > 0 => p[1] * cs.max.v = cs.total.v * 100 * p[2]
                /\ 0 <= cs.total.v /\ cs.total.v <= cs.max.v
                /\ 0 <= p[1] /\ p[1] <= 100 * p[2]

\* C22 witness: after two requests the stored assessment holds a score of 1
\* out of 3 with percentage 100/3 (one practice index sent twice) in its
\* first record and a score of 2 out of 2 in its second
C22_Witness ==
    /\ response.route = "save_selections"
    /\ response.status = 200
    /\ Len(RecordsOf(StoredOfA)) = 2
    /\ RecordsOf(StoredOfA)[1].calculated_score =
           ScoreDict(Num(1), Num(3), [k |-> "ratio", r |-> <<100, 3>>])
    /\ RecordsOf(StoredOfA)[2].calculated_score = ScoreDict(Num(2), Num(2), Num(100))

\* 0 <= n < len
IndexInRange(n, len) == 0 <= n /\ n < len

\* The entries of a body: none for a body that is no object
EntriesOf(s) == IF s.k = "dict" THEN s.items ELSE <<>>

\* The positions (from 1) that the keys k with 0 <= k < n of a body address
Addressed(s, n) ==
    {EntriesOf(s)[j].key.v + 1 : j \in {e \in 1..Len(EntriesOf(s)) :
        /\ EntriesOf(s)[e].key.k = "int"
        /\ IndexInRange(EntriesOf(s)[e].key.v, n)}}

\* C25: whatever body is sent, save_selections changes only the records at
\* the positions k with 0 <= k < number of records that the body's keys
\* name, and in them only selected_maturity_level and calculated_score; a
\* body whose keys are all outside that range leaves every record as it was.
C25_OnlyAddressedRecords ==
    \A s \in SelectionPool :
        LET before == RecordsOf(StoredOfA)
            after == RecordsOf(find_existing_assessment(
                                   save_selections(files, DocA, s).files, DocA))
        IN  before # <<>> =>
                /\ Len(after) = Len(before)
                /\ \A i \in 1..Len(before) :
                       /\ after[i].clause = before[i].clause
                       /\ after[i].maturity_levels = before[i].maturity_levels
                       /\ i \notin Addressed(s, Len(before)) => after[i] = before[i]

\* The scores that the practices of the entry for level l of record a give
\* for the practices a body can send
ScoresOfLevel(a, l) ==
    LET entries == {j \in 1..Len(MaturityItems(a)) : LevelEquals(MaturityItems(a)[j].level, l)}
    IN  IF entries = {} THEN {}
        ELSE LET ps == MaturityItems(a)[CHOOSE j \in entries : \A e \in entries : j <= e]
                           .practices.items
             IN  {ScoreDict(Num(sum.total), Num(sum.max), Percentage(sum.total, sum.max)) :
                     sum \in {SumPractices(ps, p.items, 1, [raised |-> FALSE, total |-> 0, max |-> 0]) :
                                 p \in {q \in SentPractices : q.k = "dict"}}}

\* C26: a stored calculated_score is one computed from the practices of the
\* level stored with it as selected_maturity_level: no record holds a score
\* next to a level of 1..4 whose practices cannot give that score, or next
\* to no level at all.  (A record whose stored level is no level at all, as
\* 7 or "3", is C21's matter and is left out here.)
C26_ScoreOfStoredLevel ==
    \A f \in files : \A i \in 1..Len(RecordsOf(f)) :
        LET a == RecordsOf(f)[i]
            level == a.selected_maturity_level
        IN  (/\ a.calculated_score.k # "absent"
             /\ \/ level.k \in {"absent", "null"}
                \/ level.k = "num" /\ level.v \in 1..4)
                => a.calculated_score \in ScoresOfLevel(a, level)

\* C27: a /save_selections request that is answered with an error (400, 404
\* or 500) leaves every file of the folder as it was.
C27_ErrorWritesNothing ==
    [][(requests' = requests + 1
        /\ response'.route = "save_selections"
        /\ response'.status # 200) => files' = files]_vars

\* C27 witness: a request was answered 500 although the stored assessment
\* loads, and the pool has a body whose first selection changes a record in
\* memory before its second one raises
C27_Witness ==
    /\ response.route = "save_selections"
    /\ response.status = 500
    /\ ~Falsy(load_assessment(StoredOfA))
    /\ \E s \in SelectionPool :
           /\ s.k = "dict"
           /\ ApplySelections(RecordsOf(StoredOfA), s.items, 1).raised
           /\ ApplySelections(RecordsOf(StoredOfA), s.items, 1).list # RecordsOf(StoredOfA)
           /\ save_selections(files, DocA, s).status = 500
           /\ save_selections(files, DocA, s).files = files

----------------------------------------------------------------------------
(* Claims about the folder and the three routes *)

\* C23: the folder is a key-value store keyed by document name: for every
\* document, find_existing_assessment and find_existing_compliance_report
\* give nothing or a file that was saved for that document.
C23_LookupByDocument ==
    \A d \in Docs :
        /\ find_existing_assessment(files, d) # NoFile
               => find_existing_assessment(files, d).document = d
        /\ find_existing_compliance_report(files, d) # NoFile
               => find_existing_compliance_report(files, d).document = d

\* The stored assessment of document d is found and loads as a non-empty list
StoredLoads(fs, d) ==
    LET stored == find_existing_assessment(fs, d)
    IN  stored # NoFile /\ stored.content.k = "list" /\ stored.content.items # <<>>

\* C29: of every /analyze request: when the stored assessment found for the
\* uploaded filename loads as a non-empty list, the answer is exactly the
\* records of that file, no generation runs and the folder stays as it is;
\* generation runs only otherwise; and the folder changes only by one new
\* assessment file that holds the records generated, of which there is at
\* least one, and these records are the answer.
C29_AnalyzeReturnsStored ==
    [][(requests' = requests + 1 /\ response'.route = "analyze") =>
          LET d == response'.document
              stored == find_existing_assessment(files, d)
          IN  /\ StoredLoads(files, d) =>
                     /\ response'.status = 200
                     /\ response'.body = stored.content.items
                     /\ generation_runs' = generation_runs
                     /\ files' = files
              /\ generation_runs' # generation_runs => ~StoredLoads(files, d)
              /\ files' # files =>
                     /\ generation_runs' = generation_runs + 1
                     /\ response'.status = 200
                     /\ \E f \in files' :
                            /\ f.name = AssessmentFileName(d, now')
                            /\ f.content.k = "list"
                            /\ Len(f.content.items) >= 1
                            /\ response'.body = f.content.items
                            /\ {g \in files' : g.name # f.name}
                                   = {g \in files : g.name # f.name}]_vars

\* C29 witness: an assessment was generated once and changed by
\* /save_selections, and the third request, an upload, was answered with the
\* records of the stored file, selection included, without another generation
C29_Witness ==
    /\ requests = 3
    /\ generation_runs = 1
    /\ response.route = "analyze"
    /\ response.status = 200
    /\ \E f \in files :
           /\ response.body = RecordsOf(f)
           /\ \E i \in 1..Len(RecordsOf(f)) :
                  RecordsOf(f)[i].selected_maturity_level.k = "num"

\* The files of a folder that are no compliance reports
AssessmentFiles(fs) == {f \in fs : f.content.k # "report"}

\* C30: of every /generate_compliance_report request: it leaves every stored
\* assessment as it is; afterwards the lookup of an assessment gives for
\* every document the file it gave before and never a compliance report; and
\* the report shows for every record of the assessment file the level stored
\* in it as selected_maturity_level (1 where none is stored).
C30_ReportLeavesAssessment ==
    [][(requests' = requests + 1 /\ response'.route = "generate_compliance_report") =>
          LET loaded == load_assessment(find_existing_assessment(files, response'.document))
          IN  /\ AssessmentFiles(files') = AssessmentFiles(files)
              /\ \A e \in Docs :
                     LET found == find_existing_assessment(files', e)
                     IN  /\ found = find_existing_assessment(files, e)
                         /\ found.content.k # "report"
              /\ response'.status = 200 =>
                     /\ Len(response'.body.assessed_clauses) = Len(loaded.items)
                     /\ \A i \in 1..Len(loaded.items) :
                            /\ response'.body.assessed_clauses[i].selected_level
                                   = CurrentLevel(loaded.items[i])
                            /\ response'.body.assessed_clauses[i].clause
                                   = ClauseNum(loaded.items[i])]_vars

\* C30 witness: after an upload and a /save_selections that stored level 3
\* for the first record, the third request was answered with a report that
\* shows level 3 for it; the report is in the folder and the lookup still
\* gives the assessment
C30_Witness ==
    /\ requests = 3
    /\ response.route = "generate_compliance_report"
    /\ response.status = 200
    /\ response.body.assessed_clauses[1].selected_level = 3
    /\ \E f \in files : f.content = ReportContent(response.body)
    /\ \E d \in Docs :
           /\ StoredLoads(files, d)
           /\ RecordsOf(find_existing_assessment(files, d))[1].selected_maturity_level = Num(3)

\* C28: when two /save_selections requests for the same document, one for
\* record 0 and one for record 1, are handled at the same time and both are
\* answered with 200, the stored assessment holds both selections.
C28_BothSelectionsKept ==
    (\A i \in Handlers : threads[i].pc = "done" /\ threads[i].status = 200) =>
        \E f \in files :
            /\ f.name = threads[1].path
            /\ f.content.k = "list"
            /\ f.content.items[1].selected_maturity_level
                   = threads[1].selections.items[1].sel.maturity_level
            /\ f.content.items[2].selected_maturity_level
                   = threads[2].selections.items[1].sel.maturity_level

====
